---- MODULE Spec2Model ----
(***************************************************************************)
(* TinyR: the type-symbol lattice (Core/TypeSymbol.py), the array value    *)
(* algebra (Class/Array.py) and the assignment rule of the semantic        *)
(* checker (Core/SemanticChecker.py, Core/Operator.py).                    *)
(*                                                                         *)
(* The operations are pure functions of their arguments.  Each             *)
(* specification below draws the arguments of one call from bounded sets,  *)
(* applies the operation as the code computes it and records the call in   *)
(* the variables op (which operation), arg (its arguments) and out (its    *)
(* outcome).                                                               *)
(***************************************************************************)
EXTENDS Integers, Sequences, FiniteSets, TLC

VARIABLES op, arg, out

vars == <<op, arg, out>>

(***************************************************************************)
(* Bounds.                                                                 *)
(***************************************************************************)
\* largest depth of an array type
MaxDept == 2
\* largest number of arguments of a function type
MaxArity == 2

(***************************************************************************)
(* TYPE SYMBOLS  (Core/TypeSymbol.py)                                      *)
(*                                                                         *)
(* A type symbol is a record whose field t is the tag of Core/Type.py T.   *)
(* Array types carry elem and dept, function types args and ret, struct    *)
(* types elem: the dict of members, kept as the sequence of its (id, type) *)
(* entries in insertion order, ids distinct.                               *)
(***************************************************************************)
NumTSym == [t |-> "NUM"]
StrTSym == [t |-> "STR"]
BoolTSym == [t |-> "BOOL"]
VoidTSym == [t |-> "VOID"]
\* TSym(): the placeholder type of a variable that was never assigned
NATSym == [t |-> "NA"]

ArrTSym(elem, dept) == [t |-> "ARR", elem |-> elem, dept |-> dept]
FunTSym(args, ret) == [t |-> "FUN", args |-> args, ret |-> ret]
StrtTSym(elem) == [t |-> "STRT", elem |-> elem]

\* dict helpers for StrtTSym.elem: the keys, and dict.get(k)
Keys(d) == {d[i].id : i \in 1..Len(d)}
Lookup(d, k) == d[CHOOSE i \in 1..Len(d) : d[i].id = k].t

\* TSym.__base
IsBase(x) == x.t \in {"NUM", "BOOL", "STR", "VOID"}

\* Outcomes of TSym.sup that are not types: the Python value None, and an
\* exception escaping from the call (UnboundLocalError, line 231).
NONE == [t |-> "NONE"]
RAISE == [t |-> "RAISE"]

RECURSIVE EqT(_, _)
\* TSym.__eq__
EqT(a, b) ==
  IF a.t # b.t THEN FALSE
  ELSE IF IsBase(a) /\ IsBase(b) /\ a.t = b.t THEN TRUE
  ELSE IF a.t = "ARR" THEN a.elem.t = b.elem.t /\ a.dept = b.dept
  ELSE IF a.t = "FUN"
    THEN /\ Len(a.args) = Len(b.args)
         /\ \A i \in 1..Len(a.args) : EqT(a.args[i], b.args[i])
         /\ EqT(a.ret, b.ret)
  ELSE IF a.t = "STRT"
    THEN /\ Keys(a.elem) = Keys(b.elem)
         /\ \A k \in Keys(a.elem) : EqT(Lookup(a.elem, k), Lookup(b.elem, k))
  ELSE FALSE

\* The [SubVoid] rule of TSym.__le__ with the test reversed.
SubVoidRev(a, b) == b.t = "VOID"

\* The [SubVoid] rule of TSym.__le__: Void is below every type.
SubVoid(a, b) == a.t = "VOID"

RECURSIVE LeT(_, _)
\* TSym.__le__ : a <: b
LeT(a, b) ==
  IF SubVoid(a, b) THEN TRUE
  ELSE IF a.t = "BOOL" /\ b.t = "NUM" THEN TRUE
  ELSE IF IsBase(a) /\ IsBase(b) /\ EqT(a, b) THEN TRUE
  ELSE IF b.t = "ARR" /\ IsBase(a) THEN LeT(a, b.elem)
  ELSE IF b.t = "ARR" /\ a.t = "ARR"
    THEN LeT(a.elem, b.elem) /\ a.dept <= b.dept
  ELSE IF a.t = "FUN" /\ b.t = "FUN"
    THEN IF Len(a.args) # Len(b.args) THEN FALSE
         ELSE /\ \A i \in 1..Len(a.args) : LeT(a.args[i], b.args[i])
              /\ LeT(a.ret, b.ret)
  ELSE IF a.t = "STRT" /\ b.t = "STRT"
    THEN IF Len(a.elem) # Len(b.elem) THEN FALSE
         ELSE \A k \in Keys(a.elem) :
                /\ k \in Keys(b.elem)
                /\ LeT(Lookup(a.elem, k), Lookup(b.elem, k))
  ELSE FALSE

Max(m, n) == IF m >= n THEN m ELSE n

RECURSIVE Sup2(_, _)
\* TSym.sup(a, b), the two-element case (lines 181-254).  set_[01] on line
\* 229 is read as set_[1].
Sup2(a, b) ==
  IF IsBase(a)
  THEN IF IsBase(b)
       THEN IF LeT(a, b) THEN b
            ELSE IF LeT(b, a) THEN a
            ELSE NONE
       ELSE IF b.t = "ARR"
       THEN LET elem == Sup2(a, b.elem)
            IN IF elem \in {NONE, RAISE} THEN elem ELSE ArrTSym(elem, b.dept)
       ELSE NONE
  ELSE IF a.t = "ARR"
  THEN IF IsBase(b)
       THEN LET elem == Sup2(a.elem, b)
            IN IF elem \in {NONE, RAISE} THEN elem ELSE ArrTSym(elem, a.dept)
       ELSE IF b.t = "ARR"
       THEN LET elem == Sup2(a.elem, b.elem)
            IN IF elem \in {NONE, RAISE} THEN elem
               ELSE ArrTSym(elem, Max(a.dept, b.dept))
       ELSE NONE
  ELSE IF a.t # b.t THEN NONE
  ELSE IF a.t = "FUN"
  THEN IF Len(a.args) # Len(b.args) THEN NONE
       ELSE LET n == Len(a.args)
                args == [i \in 1..n |-> Sup2(a.args[i], b.args[i])]
                \* the first argument pair that ends the loop early
                stop == {i \in 1..n : args[i] \in {NONE, RAISE}}
                ret == Sup2(a.ret, b.ret)
            IN IF stop # {}
               THEN args[CHOOSE i \in stop : \A j \in stop : i <= j]
               ELSE IF ret = RAISE THEN RAISE
               \* line 231 tests elem, the supremum of the last argument
               \* pair, which is unbound when there is no argument, and
               \* never tests ret
               ELSE IF n = 0 THEN RAISE
               ELSE FunTSym(args, ret)
  ELSE IF a.t = "STRT"
  THEN IF Len(a.elem) # Len(b.elem) THEN NONE
       ELSE LET n == Len(a.elem)
                \* the members of a in insertion order
                ts == [i \in 1..n |->
                         IF a.elem[i].id \notin Keys(b.elem) THEN NONE
                         ELSE Sup2(a.elem[i].t, Lookup(b.elem, a.elem[i].id))]
                stop == {i \in 1..n : ts[i] \in {NONE, RAISE}}
            IN IF stop # {}
               THEN ts[CHOOSE i \in stop : \A j \in stop : i <= j]
               ELSE StrtTSym([i \in 1..n |-> [id |-> a.elem[i].id, t |-> ts[i]]])
  ELSE NONE

Front(s) == SubSeq(s, 1, Len(s) - 1)

RECURSIVE Sup(_)
\* TSym.sup(*set_) (lines 171-179): no type, one type, or a left fold.
Sup(set_) ==
  IF Len(set_) = 0 THEN NONE
  ELSE IF Len(set_) = 1 THEN set_[1]
  ELSE IF Len(set_) > 2
    THEN LET t == Sup(Front(set_))
         IN IF t \in {NONE, RAISE} THEN t ELSE Sup2(t, set_[Len(set_)])
  ELSE Sup2(set_[1], set_[2])

(***************************************************************************)
(* The NA-free types the calls are drawn from.                             *)
(***************************************************************************)
SeqUpTo(S, n) == UNION {[1..k -> S] : k \in 0..n}

MemIds == {"a", "b"}

BaseTs == {NumTSym, BoolTSym, StrTSym, VoidTSym}
ArrTs == {ArrTSym(e, d) : e \in BaseTs, d \in 1..MaxDept}

FunTs ==
  {FunTSym(args, ret) :
     args \in SeqUpTo({NumTSym, BoolTSym, StrTSym}, MaxArity),
     ret \in {NumTSym, BoolTSym, StrTSym, ArrTSym(NumTSym, 1)}}

\* structs of at most two members, in both insertion orders
StrtTs ==
  {StrtTSym(<<>>)}
  \cup {StrtTSym(<<[id |-> k, t |-> x]>>) :
          k \in MemIds, x \in {NumTSym, BoolTSym, StrTSym}}
  \cup {StrtTSym(<<[id |-> kl[1], t |-> x], [id |-> kl[2], t |-> y]>>) :
          kl \in {p \in MemIds \X MemIds : p[1] # p[2]},
          x \in {NumTSym, BoolTSym, StrTSym}, y \in {NumTSym, BoolTSym, StrTSym}}

\* composite types nested in composite types
InnerTs ==
  {VoidTSym, NumTSym, ArrTSym(NumTSym, 1), FunTSym(<<>>, NumTSym),
   FunTSym(<<NumTSym>>, BoolTSym), StrtTSym(<<[id |-> "a", t |-> NumTSym]>>)}
NestTs ==
  {FunTSym(<<x>>, y) : x \in InnerTs, y \in InnerTs}
  \cup {StrtTSym(<<[id |-> "a", t |-> x]>>) : x \in InnerTs}
  \cup {ArrTSym(x, 1) : x \in {y \in InnerTs : y.t \in {"FUN", "STRT"}}}

Types == BaseTs \cup ArrTs \cup FunTs \cup StrtTs \cup NestTs

(***************************************************************************)
(* The specification of the type lattice: one call of TSym.sup or of       *)
(* TSym.__le__ on a pair of types, made from the initial state.            *)
(***************************************************************************)
Init == op = "init" /\ arg = <<>> /\ out = <<>>

CallSup ==
  /\ op = "init"
  /\ \E a \in Types, b \in Types :
    /\ op' = "sup"
    /\ arg' = <<a, b>>
    /\ out' = Sup(<<a, b>>)

CallLe ==
  /\ op = "init"
  /\ \E a \in Types, b \in Types :
    /\ op' = "le"
    /\ arg' = <<a, b>>
    /\ out' = LeT(a, b)

TNext == CallSup \/ CallLe

TSpec == Init /\ [][TNext]_vars

(***************************************************************************)
(* ARRAY VALUES  (Class/Array.py)                                          *)
(*                                                                         *)
(* A value is a record with field k: "Sc" for a base-type object (field v) *)
(* and "Vec", "Mat", "Arr" for an instance of that class, with fields elem *)
(* (the items of the list _elem), dim (_dim) and id, the identity of the   *)
(* list object _elem.  Lists that exist before a call have distinct        *)
(* positive ids; every list made during a call has the id Fresh.           *)
(***************************************************************************)
Fresh == 0

Sc(x) == [k |-> "Sc", v |-> x]
\* Arr(elem, dim), Mat(elem, dim) and Vec(elem) called on the list l
Obj(cls, l, dim) == [k |-> cls, id |-> l.id, elem |-> l.items, dim |-> dim]
\* a list display or comprehension: a new list
NewList(items) == [k |-> "list", id |-> Fresh, items |-> items]
\* the list self._elem itself
ElemOf(self) == [k |-> "list", id |-> self.id, items |-> self.elem]

\* an exception: ArrErr(errno), or a host exception (errno "PY")
Err(errno) == [k |-> "Err", errno |-> errno]
IsErr(x) == x.k = "Err"
\* the Python value None
NoneV == [k |-> "None"]

\* isinstance(x, Arr) and isinstance(x, Mat): Vec < Mat < Arr
IsArr(x) == x.k \in {"Vec", "Mat", "Arr"}
\* IsMat without the class Mat itself
IsMatVec(x) == x.k = "Vec"

IsMat(x) == x.k \in {"Vec", "Mat"}
\* Arr.dept
Dept(x) == Len(x.dim)

RECURSIVE DeepCopy(_)
\* copy.deepcopy through Arr/Mat/Vec.__deepcopy__
DeepCopy(x) ==
  IF ~IsArr(x) THEN x
  ELSE IF x.k = "Vec"
    THEN Obj("Vec", NewList([i \in 1..Len(x.elem) |-> DeepCopy(x.elem[i])]),
             <<Len(x.elem)>>)
  ELSE Obj(x.k, NewList([i \in 1..Len(x.elem) |-> DeepCopy(x.elem[i])]), x.dim)

\* elem = self._elem, the list aliased instead of copied
AliasElem(self) == ElemOf(self)

\* elem = deepcopy(self._elem)
CopyElem(self) == NewList([i \in 1..Len(self.elem) |-> DeepCopy(self.elem[i])])

\* round(x) of Python 3 for an index given in half units (h stands for
\* h/2): halves go to the even neighbour
Round(h) ==
  IF h % 2 = 0 THEN h \div 2
  ELSE LET lo == (h - 1) \div 2
       IN IF lo % 2 = 0 THEN lo ELSE lo + 1

\* An index chain entry: None, a Vec of numbers, or a number.
All == [s |-> "All"]
List(idxs) == [s |-> "List", v |-> idxs]
Sngl(i) == [s |-> "Sngl", v |-> i]

\* idx[1:]
Rest(idx) == SubSeq(idx, 2, Len(idx))
\* idx += [None] * n
Pad(idx, n) == idx \o [i \in 1..n |-> All]

\* the first exception among the outcomes s, or no exception
ErrsOf(s) == {i \in 1..Len(s) : IsErr(s[i])}
\* FirstErr with the last exception in place of the first
LastErr(s) == s[CHOOSE i \in ErrsOf(s) : \A j \in ErrsOf(s) : i >= j]

FirstErr(s) == s[CHOOSE i \in ErrsOf(s) : \A j \in ErrsOf(s) : i <= j]

(***************************************************************************)
(* Promotion and degradation.                                              *)
(***************************************************************************)
RECURSIVE Promote(_, _)
\* Arr.promote (400-416), Mat.promote (917-918), Vec.promote (1446-1447)
Promote(self, n) ==
  IF self.k = "Arr"
  THEN IF n > 0
       THEN Promote(Obj("Arr", NewList(<<self>>), <<1>> \o self.dim), n - 1)
       ELSE self
  ELSE IF self.k = "Mat"
  THEN IF n >= 1
       THEN Promote(Obj("Arr", NewList(<<self>>), <<1>> \o self.dim), n - 1)
       ELSE self
  ELSE IF n >= 1
       THEN Promote(Obj("Mat", NewList(<<self>>), <<1, self.dim[1]>>), n - 1)
       ELSE self

RECURSIVE Degrade(_, _)
\* Arr.degrade (418-439), Mat.degrade (920-921), Vec.degrade (1449-1453).
\* The loop of Arr.degrade assigns self._elem[0] on every round, so it
\* stops at the first child unless that child is a Mat.
Degrade(self, n) ==
  IF ~IsArr(self) THEN Err("PY")
  ELSE IF self.k = "Arr"
  THEN IF n > 0
       THEN LET res == self.elem[1]
            IN IF res.k = "Mat" THEN Degrade(res, n - 1) ELSE res
       ELSE self
  ELSE IF self.k = "Mat"
  THEN IF n > 0 THEN Degrade(self.elem[1], n - 1) ELSE self
  ELSE IF n > 0
       THEN IF self.dim[1] # 0 THEN self.elem[1] ELSE NoneV
       ELSE self

(***************************************************************************)
(* Indexing.                                                               *)
(***************************************************************************)
RECURSIVE Get(_, _)

\* Wrap with every container of containers made an Arr
WrapArr(res) ==
  IF Len(res) = 0 THEN Err("PY")
  ELSE IF res[1].k \in {"Vec", "Mat", "Arr"}
    THEN Obj("Arr", NewList(res), <<Len(res)>> \o res[1].dim)
  ELSE Obj("Vec", NewList(res), <<Len(res)>>)

\* the container made of the results of an All or List selection
\* (Arr.get 226-231 and 248-253)
Wrap(res) ==
  IF Len(res) = 0 THEN Err("PY")
  ELSE IF res[1].k = "Vec"
    THEN Obj("Mat", NewList(res), <<Len(res)>> \o res[1].dim)
  ELSE IF res[1].k \in {"Mat", "Arr"}
    THEN Obj("Arr", NewList(res), <<Len(res)>> \o res[1].dim)
  ELSE Obj("Vec", NewList(res), <<Len(res)>>)

\* OutOfBound with the first item out of bound too
OutOfBoundFirst(self, i) == i < 1 \/ i >= self.dim[1]

\* i < 0 or i >= self._dim[0]
OutOfBound(self, i) == i < 0 \/ i >= self.dim[1]

\* Arr.get, which Mat inherits
ArrGet(self, idx0) ==
  IF Len(idx0) > Dept(self)
  THEN Get(Promote(self, Len(idx0) - Dept(self)), idx0)
  ELSE
    LET idx == IF Len(idx0) < Dept(self)
               THEN Pad(idx0, Dept(self) - Len(idx0)) ELSE idx0
    IN
    IF idx[1].s = "All"
    THEN \* [IdxAll]
      LET res == [i \in 1..Len(self.elem) |-> Get(self.elem[i], Rest(idx))]
      IN IF ErrsOf(res) # {} THEN FirstErr(res) ELSE Wrap(res)
    ELSE IF idx[1].s = "List"
    THEN \* [IdxList]
      LET idx_set == idx[1].v
          res == [n \in 1..Len(idx_set) |->
                   LET i == Round(idx_set[n])
                   IN IF OutOfBound(self, i) THEN Err("IDX_BOUND")
                      ELSE Get(self.elem[i + 1], Rest(idx))]
      IN IF Len(idx_set) = 0 THEN Err("EMPTY_IDX")
         ELSE IF ErrsOf(res) # {} THEN FirstErr(res)
         ELSE Wrap(res)
    ELSE \* [IdxSngl]
      LET i == Round(idx[1].v)
      IN IF OutOfBound(self, i) THEN Err("IDX_BOUND")
         ELSE Get(self.elem[i + 1], Rest(idx))

\* Vec.get
VecGet(self, idx) ==
  IF Len(idx) > 1 THEN Get(Promote(self, Len(idx) - 1), idx)
  ELSE IF Len(idx) = 0 THEN Err("PY")
  ELSE IF idx[1].s = "All"
  THEN \* [IdxAllBase]
    Obj("Vec", CopyElem(self), <<Len(self.elem)>>)
  ELSE IF idx[1].s = "List"
  THEN \* [IdxListBase]
    LET idx_set == idx[1].v
        res == [n \in 1..Len(idx_set) |->
                 LET i == Round(idx_set[n])
                 IN IF OutOfBound(self, i) THEN Err("IDX_BOUND")
                    ELSE self.elem[i + 1]]
    IN IF Len(idx_set) = 0 THEN Err("EMPTY_IDX")
       ELSE IF ErrsOf(res) # {} THEN FirstErr(res)
       ELSE Obj("Vec", NewList(res), <<Len(res)>>)
  ELSE \* [IdxSnglBase]
    LET i == Round(idx[1].v)
    IN IF OutOfBound(self, i) THEN Err("IDX_BOUND") ELSE self.elem[i + 1]

\* x.get(idx): the method of the class of x
Get(x, idx) ==
  IF x.k = "Vec" THEN VecGet(x, idx)
  ELSE IF x.k \in {"Mat", "Arr"} THEN ArrGet(x, idx)
  ELSE Err("PY")

(***************************************************************************)
(* Updating.  The outcome of update is the record [r, w]: r is the         *)
(* returned value or the exception, w the ids of the lists an item of      *)
(* which was assigned in place (elem[j] = ...) during the call.            *)
(***************************************************************************)
RECURSIVE Update(_, _, _)
RECURSIVE UpLoop(_, _, _, _, _, _, _, _)

UpRes(r, w) == [r |-> r, w |-> w]

\* the union of the write sets of the outcomes s[1..n]
WritesUpTo(s, n) == UNION {s[i].w : i \in 1..n}

\* Collect with the outcomes taken in reverse order
CollectRev(cls, s, dim) ==
  LET rs == [i \in 1..Len(s) |-> s[Len(s) + 1 - i].r]
  IN IF ErrsOf(rs) # {}
     THEN LET f == CHOOSE i \in ErrsOf(rs) : \A j \in ErrsOf(rs) : i <= j
          IN UpRes(rs[f], WritesUpTo(s, f))
     ELSE UpRes(Obj(cls, NewList(rs), dim), WritesUpTo(s, Len(s)))

\* the outcomes of updating every child, collected by a list comprehension
\* into the object of class cls: the first exception in order wins
Collect(cls, s, dim) ==
  LET rs == [i \in 1..Len(s) |-> s[i].r]
  IN IF ErrsOf(rs) # {}
     THEN LET f == CHOOSE i \in ErrsOf(rs) : \A j \in ErrsOf(rs) : i <= j
          IN UpRes(rs[f], WritesUpTo(s, f))
     ELSE UpRes(Obj(cls, NewList(rs), dim), WritesUpTo(s, Len(s)))

\* The loop `for i in range(len(idx_set))` of the List branches from its
\* n-th round on: elem is the list being written, dim0 is self._dim[0], item
\* gives the value assigned for round n and base tells the Vec base case
\* (assign a copy) from the outer case (assign the updated child).
UpLoop(elem, dim0, idx_set, n, rest, item, base, w) ==
  IF n > Len(idx_set) THEN UpRes(elem, w)
  ELSE
    LET j == Round(idx_set[n])
    IN IF j < 0 \/ j >= dim0 THEN UpRes(Err("IDX_BOUND"), w)
       ELSE
         LET u == IF base THEN UpRes(DeepCopy(item[n]), {})
                  ELSE Update(elem.items[j + 1], rest, item[n])
         IN IF IsErr(u.r) THEN UpRes(u.r, w \cup u.w)
            ELSE UpLoop([elem EXCEPT !.items[j + 1] = u.r], dim0, idx_set,
                        n + 1, rest, item, base, w \cup u.w \cup {elem.id})

\* The branches of Arr.update (322-386) and of Mat.update (846-909), which
\* differ in the class tested on val (comp) and in the class of the result
\* (cls).  idx has been brought to the depth of self.
UpNode(self, idx, val, comp, cls) ==
  IF idx[1].s = "All"
  THEN \* [UpIdxAllComp], [UpIdxAllDist]
    IF comp /\ self.dim[1] # val.dim[1] THEN UpRes(Err("ASGN_N_MISS"), {})
    ELSE Collect(cls,
                 [i \in 1..self.dim[1] |->
                    Update(self.elem[i], Rest(idx),
                           IF comp THEN val.elem[i] ELSE val)],
                 self.dim)
  ELSE IF idx[1].s = "List"
  THEN \* [UpIdxListComp], [UpIdxListDist]
    LET idx_set == idx[1].v
        elem == CopyElem(self)
        item == [n \in 1..Len(idx_set) |-> IF comp THEN val.elem[n] ELSE val]
    IN IF comp /\ Len(idx_set) # val.dim[1] THEN UpRes(Err("ASGN_N_MISS"), {})
       ELSE LET u == UpLoop(elem, self.dim[1], idx_set, 1, Rest(idx), item,
                            FALSE, {})
            IN IF IsErr(u.r) THEN u ELSE UpRes(Obj(cls, u.r, self.dim), u.w)
  ELSE \* [UpIdxSngl]
    LET i == Round(idx[1].v)
        elem == CopyElem(self)
    IN IF OutOfBound(self, i) THEN UpRes(Err("IDX_BOUND"), {})
       ELSE LET u == Update(elem.items[i + 1], Rest(idx), val)
            IN IF IsErr(u.r) THEN u
               ELSE UpRes(Obj(cls, [elem EXCEPT !.items[i + 1] = u.r], self.dim),
                          u.w \cup {elem.id})

\* Arr.update
ArrUpdate(self, idx, val) ==
  IF Len(idx) > Dept(self)
  THEN Update(Promote(self, Len(idx) - Dept(self)), idx, val)
  ELSE UpNode(self,
              IF Len(idx) < Dept(self)
              THEN Pad(idx, Dept(self) - Len(idx)) ELSE idx,
              val, IsArr(val), "Arr")

\* Mat.update
MatUpdate(self, idx, val) ==
  IF Len(idx) > 2 THEN Update(Promote(self, Len(idx) - 1), idx, val)
  ELSE UpNode(self, IF Len(idx) < 2 THEN Pad(idx, 1) ELSE idx,
              val, IsMat(val), "Mat")

\* Vec.update
VecUpdate(self, idx, val) ==
  IF Len(idx) > 1 THEN Update(Promote(self, Len(idx) - 1), idx, val)
  ELSE IF Len(idx) = 0 THEN UpRes(Err("PY"), {})
  ELSE IF val.k = "Vec"
  THEN IF idx[1].s = "All"
       THEN \* [UpIdxAllCompBase]
         IF self.dim[1] # val.dim[1] THEN UpRes(Err("ASGN_N_MISS"), {})
         ELSE UpRes(Obj("Vec", CopyElem(val), <<Len(val.elem)>>), {})
       ELSE \* [UpIdxListCompBase], entered for a single index too
         LET idx_set == idx[1].v
             elem == CopyElem(self)
         IN IF idx[1].s # "List" THEN UpRes(Err("PY"), {})
            ELSE IF Len(idx_set) # val.dim[1] THEN UpRes(Err("ASGN_N_MISS"), {})
            ELSE LET u == UpLoop(elem, self.dim[1], idx_set, 1, <<>>,
                                 val.elem, TRUE, {})
                 IN IF IsErr(u.r) THEN u
                    ELSE UpRes(Obj("Vec", u.r, <<Len(u.r.items)>>), u.w)
  ELSE IF idx[1].s = "All"
       THEN \* [UpIdxAllDistBase]
         UpRes(Obj("Vec", NewList([i \in 1..self.dim[1] |-> DeepCopy(val)]),
                   <<self.dim[1]>>), {})
       ELSE IF idx[1].s = "List"
       THEN \* [UpIdxListDistBase]
         LET idx_set == idx[1].v
             elem == CopyElem(self)
             u == UpLoop(elem, self.dim[1], idx_set, 1, <<>>,
                         [n \in 1..Len(idx_set) |-> val], TRUE, {})
         IN IF IsErr(u.r) THEN u
            ELSE UpRes(Obj("Vec", u.r, <<Len(u.r.items)>>), u.w)
       ELSE \* [UpIdxSnglBase]
         LET i == Round(idx[1].v)
             elem == CopyElem(self)
         IN IF OutOfBound(self, i) THEN UpRes(Err("IDX_BOUND"), {})
            ELSE UpRes(Obj("Vec", [elem EXCEPT !.items[i + 1] = DeepCopy(val)],
                           <<Len(elem.items)>>),
                       {elem.id})

\* x.update(idx, val): the method of the class of x
Update(x, idx, val) ==
  IF x.k = "Arr" THEN ArrUpdate(x, idx, val)
  ELSE IF x.k = "Mat" THEN MatUpdate(x, idx, val)
  ELSE IF x.k = "Vec" THEN VecUpdate(x, idx, val)
  ELSE UpRes(Err("PY"), {})

(***************************************************************************)
(* The array values, index chains and assigned values the calls are drawn  *)
(* from.  A value of shape dim holds the distinct numbers base + 1,        *)
(* base + 2, ... in row-major order; its lists have the ids id, 10*id + 1, *)
(* 10*id + 2, ... down the tree.  Every axis has at least one item, as in  *)
(* every value an array literal or a built-in makes.                       *)
(***************************************************************************)
\* largest length of an axis
MaxDim == 2
\* largest depth of a value
MaxDepth == 3
\* largest length of an index chain
MaxChain == 3
\* largest number of promotions
MaxProm == 3

RECURSIVE Prod(_)
Prod(dim) == IF Len(dim) = 0 THEN 1 ELSE dim[1] * Prod(Tail(dim))

RECURSIVE MkArr(_, _, _)
MkArr(dim, base, id) ==
  IF Len(dim) = 1
  THEN [k |-> "Vec", id |-> id, elem |-> [i \in 1..dim[1] |-> Sc(base + i)],
        dim |-> dim]
  ELSE [k |-> IF Len(dim) = 2 THEN "Mat" ELSE "Arr", id |-> id,
        elem |-> [i \in 1..dim[1] |->
                    MkArr(Tail(dim), base + (i - 1) * Prod(Tail(dim)), 10 * id + i)],
        dim |-> dim]

Dims == UNION {[1..d -> 1..MaxDim] : d \in 1..MaxDepth}
\* the values indexed and updated
Arrays == {MkArr(dim, 0, 1) : dim \in Dims}
\* the values assigned: a base-type object, vectors and matrices
Vals == {Sc(99)} \cup {MkArr(dim, 100, 2) : dim \in {<<1>>, <<2>>, <<1, 2>>, <<2, 2>>}}

\* indices in half units: -1, 0, 0.5, 1 and the first index out of every axis
SnglIdx == {-2, 0, 1, 2, 2 * MaxDim}
ListIdx == {<<>>, <<2, 0>>, <<0, 0>>, <<0, 2 * MaxDim>>}
Sels == {All} \cup {Sngl(i) : i \in SnglIdx} \cup {List(l) : l \in ListIdx}
Chains == UNION {[1..n -> Sels] : n \in 1..MaxChain}

(***************************************************************************)
(* The specification of the array algebra: one call of promote followed by *)
(* degrade, of get or of update, made from the initial state.              *)
(***************************************************************************)
CallPromoteDegrade ==
  /\ op = "init"
  /\ \E v \in Arrays, n \in 0..MaxProm :
       /\ op' = "degrade"
       /\ arg' = <<v, n>>
       /\ out' = Degrade(Promote(v, n), n)

CallGet ==
  /\ op = "init"
  /\ \E v \in Arrays, idx \in Chains :
       /\ op' = "get"
       /\ arg' = <<v, idx>>
       /\ out' = Get(v, idx)

CallUpdate ==
  /\ op = "init"
  /\ \E v \in Arrays, idx \in Chains, val \in Vals :
       /\ op' = "update"
       /\ arg' = <<v, idx, val>>
       /\ out' = Update(v, idx, val)

ANext == CallPromoteDegrade \/ CallGet \/ CallUpdate

ASpec == Init /\ [][ANext]_vars

(***************************************************************************)
(* THE SEMANTIC CHECKER  (Core/SemanticChecker.py, Core/Operator.py)       *)
(*                                                                         *)
(* A node of the syntax tree is the record [t, v, ch]: t is the token type *)
(* (TokT), v the token value (the id of a variable, the OpT of an          *)
(* operator) and ch the children.  The type table of SymTab is a function  *)
(* from ids to types, NATSym standing for no entry.  The outcome of a      *)
(* check is the record [t, err, env]: the type given to the node, "OK" or  *)
(* the errno of the exception raised, and the type table left behind.      *)
(***************************************************************************)
Node(t, v, ch) == [t |-> t, v |-> v, ch |-> ch]
Ok(t, env) == [t |-> t, err |-> "OK", env |-> env]
Raise(errno, env) == [t |-> NONE, err |-> errno, env |-> env]

\* SymTab.lookup_t
LookupT(env, k) == env[k]

\* SymTab.update_t that keeps the type a bound variable has
UpdateTKeep(env, k, t) == IF env[k] = NATSym THEN [env EXCEPT ![k] = t] ELSE env

\* SymTab.update_t
UpdateT(env, k, t) == [env EXCEPT ![k] = t]

RECURSIVE IdxLoop(_, _)
\* IdxLoop with a Void index taken as any other subtype of Num
IdxLoopNoVoid(t2, dept) ==
  IF Len(t2) = 0 THEN [ok |-> TRUE, dept |-> dept]
  ELSE IF LeT(t2[1], NumTSym) THEN IdxLoop(Tail(t2), dept - 1)
  ELSE IF LeT(t2[1], ArrTSym(NumTSym, 1)) THEN IdxLoop(Tail(t2), dept)
  ELSE [ok |-> FALSE, dept |-> dept]

\* The loop `for t in t2` of Sp.__t_chk_hlpr_idx (555-563): the depth left
\* when the index types t2 remain, or the return of None
IdxLoop(t2, dept) ==
  IF Len(t2) = 0 THEN [ok |-> TRUE, dept |-> dept]
  ELSE IF EqT(t2[1], VoidTSym) THEN IdxLoop(Tail(t2), dept)
  ELSE IF LeT(t2[1], NumTSym) THEN IdxLoop(Tail(t2), dept - 1)
  ELSE IF LeT(t2[1], ArrTSym(NumTSym, 1)) THEN IdxLoop(Tail(t2), dept)
  ELSE [ok |-> FALSE, dept |-> dept]

\* Sp.__t_chk_hlpr_idx
TChkHlprIdx(t1, t2) ==
  LET l == IdxLoop(t2, IF t1.t = "ARR" THEN Max(t1.dept, Len(t2)) ELSE Len(t2))
  IN IF ~l.ok THEN NONE
     ELSE IF t1.t = "ARR"
       THEN IF l.dept > 0 THEN ArrTSym(t1.elem, l.dept) ELSE t1.elem
     ELSE IF l.dept > 0 THEN ArrTSym(t1, l.dept) ELSE t1

\* Sp.t_chk answering the type of the target for an assignment
SpTChkAsgn(o, a) ==
  IF Len(a) >= 2
  THEN IF o = "IDX" THEN TChkHlprIdx(a[1], Tail(a)) ELSE a[1]
  ELSE NONE

\* Sp.t_chk: the type half of its answer
SpTChk(o, a) ==
  IF Len(a) >= 2
  THEN IF o = "IDX" THEN TChkHlprIdx(a[1], Tail(a)) ELSE NONE
  ELSE NONE

(***************************************************************************)
(* The resolvers of the arithmetic, comparison and logical operators       *)
(* (Core/Operator.py): the type half of the answer of t_chk, NONE for no   *)
(* signature and RAISE when TSym.sup raises.                               *)
(***************************************************************************)
\* Arith.__t_chk_hlpr_bin after sup_t = TSym.sup(t1, t2)
ArithBinOf(sup_t) ==
  IF sup_t \in {NONE, RAISE} THEN sup_t
  ELSE IF LeT(sup_t, NumTSym) THEN NumTSym
  ELSE IF sup_t.t = "ARR" /\ LeT(sup_t.elem, NumTSym)
    THEN ArrTSym(NumTSym, sup_t.dept)
  ELSE NONE

\* Arith.__t_chk_hlpr_bin
ArithHlprBin(t1, t2) == ArithBinOf(Sup(<<t1, t2>>))

\* Arith.__t_chk_hlpr_uni
ArithHlprUni(t) ==
  IF t.t = "ARR"
  THEN IF LeT(t.elem, NumTSym) THEN ArrTSym(NumTSym, t.dept) ELSE NONE
  ELSE IF LeT(t, NumTSym) THEN NumTSym ELSE NONE

\* Arith.__t_chk_hlpr_add after sup_t = TSym.sup(t1, t2)
ArithAddOf(sup_t) ==
  IF sup_t \in {NONE, RAISE} THEN sup_t
  ELSE IF sup_t.t = "ARR"
    THEN IF LeT(sup_t.elem, NumTSym) THEN ArrTSym(NumTSym, sup_t.dept)
         ELSE IF EqT(sup_t.elem, StrTSym) THEN ArrTSym(StrTSym, sup_t.dept)
         ELSE NONE
  ELSE IF LeT(sup_t, NumTSym) THEN NumTSym
  ELSE IF EqT(sup_t, StrTSym) THEN StrTSym
  ELSE NONE

\* Arith.__t_chk_hlpr_add
ArithHlprAdd(t1, t2) == ArithAddOf(Sup(<<t1, t2>>))

\* Arith.__t_chk_hlpr_mul
ArithHlprMul(t1, t2) ==
  IF /\ IsBase(t1) /\ IsBase(t2)
     /\ \/ LeT(t1, NumTSym) /\ EqT(t2, StrTSym)
        \/ LeT(t2, NumTSym) /\ EqT(t1, StrTSym)
  THEN StrTSym
  ELSE IF /\ IsBase(t1) /\ t2.t = "ARR"
          /\ \/ LeT(t1, NumTSym) /\ EqT(t2.elem, StrTSym)
             \/ LeT(t2.elem, NumTSym) /\ EqT(t1, StrTSym)
  THEN ArrTSym(StrTSym, t2.dept)
  ELSE IF /\ ~IsBase(t1) /\ t1.t = "ARR" /\ IsBase(t2)
          /\ \/ LeT(t1.elem, NumTSym) /\ EqT(t2, StrTSym)
             \/ LeT(t2, NumTSym) /\ EqT(t1.elem, StrTSym)
  THEN ArrTSym(StrTSym, t1.dept)
  ELSE IF /\ ~IsBase(t1) /\ t1.t = "ARR" /\ ~IsBase(t2) /\ t2.t = "ARR"
          /\ \/ LeT(t1.elem, NumTSym) /\ EqT(t2.elem, StrTSym)
             \/ LeT(t2.elem, NumTSym) /\ EqT(t1.elem, StrTSym)
  THEN ArrTSym(StrTSym, Max(t1.dept, t2.dept))
  ELSE ArithHlprBin(t1, t2)

\* Arith.__t_chk_hlpr_matmul after t = __t_chk_hlpr_bin(t1, t2)
ArithMatmulOf(t) ==
  IF t \in {NONE, RAISE} THEN t
  ELSE IF IsBase(t) THEN ArrTSym(t, 2)
  ELSE ArrTSym(t.elem, Max(2, t.dept))

\* Arith.__t_chk_hlpr_matmul
ArithHlprMatmul(t1, t2) == ArithMatmulOf(ArithHlprBin(t1, t2))

\* Arith.__t_chk_hlpr_seq
ArithHlprSeq(t1, t2) ==
  IF LeT(t1, NumTSym) /\ LeT(t2, NumTSym) THEN ArrTSym(NumTSym, 1) ELSE NONE

\* Arith.t_chk
ArithTChk(o, a) ==
  IF Len(a) = 1
  THEN IF o \in {"ADD", "SUB"} THEN ArithHlprUni(a[1]) ELSE NONE
  ELSE IF Len(a) = 2
  THEN IF o = "ADD" THEN ArithHlprAdd(a[1], a[2])
       ELSE IF o = "SUB" THEN ArithHlprBin(a[1], a[2])
       ELSE IF o = "MUL" THEN ArithHlprMul(a[1], a[2])
       ELSE IF o = "MATMUL" THEN ArithHlprMatmul(a[1], a[2])
       ELSE IF o = "DIV" THEN ArithHlprBin(a[1], a[2])
       ELSE IF o = "MOD" THEN ArithHlprBin(a[1], a[2])
       ELSE IF o = "QUOT" THEN ArithHlprBin(a[1], a[2])
       ELSE IF o = "SEQ" THEN ArithHlprSeq(a[1], a[2])
       ELSE IF o = "EXP" THEN ArithHlprBin(a[1], a[2])
       ELSE NONE
  ELSE NONE

\* Comp.__t_chk_hlpr after sup_t = TSym.sup(t1, t2)
CompOf(sup_t) ==
  IF sup_t \in {NONE, RAISE} THEN sup_t
  ELSE IF /\ sup_t.t = "ARR"
          /\ (LeT(sup_t.elem, NumTSym) \/ EqT(sup_t.elem, StrTSym))
    THEN ArrTSym(BoolTSym, sup_t.dept)
  ELSE IF LeT(sup_t, NumTSym) \/ EqT(sup_t, StrTSym) THEN BoolTSym
  ELSE NONE

\* Comp.__t_chk_hlpr
CompHlpr(t1, t2) == CompOf(Sup(<<t1, t2>>))

\* Comp.t_chk
CompTChk(o, a) == IF Len(a) = 2 THEN CompHlpr(a[1], a[2]) ELSE NONE

\* Logi.__t_chk_hlpr_bin after sup_t = TSym.sup(t1, t2)
LogiBinOf(sup_t) ==
  IF sup_t \in {NONE, RAISE} THEN sup_t
  ELSE IF sup_t.t = "ARR" /\ LeT(sup_t.elem, NumTSym)
    THEN ArrTSym(BoolTSym, sup_t.dept)
  ELSE IF LeT(sup_t, NumTSym) THEN BoolTSym
  ELSE NONE

\* Logi.__t_chk_hlpr_bin
LogiHlprBin(t1, t2) == LogiBinOf(Sup(<<t1, t2>>))

\* Logi.__t_chk_hlpr_uni
LogiHlprUni(t) ==
  IF t.t = "ARR"
  THEN IF LeT(t.elem, NumTSym) THEN ArrTSym(BoolTSym, t.dept) ELSE NONE
  ELSE IF IsBase(t) THEN IF LeT(t, NumTSym) THEN BoolTSym ELSE NONE
  ELSE NONE

\* Logi.t_chk
LogiTChk(o, a) ==
  IF Len(a) = 1
  THEN IF o = "NEG" THEN LogiHlprUni(a[1]) ELSE NONE
  ELSE IF Len(a) = 2
  THEN IF o \in {"AND", "OR"} THEN LogiHlprBin(a[1], a[2]) ELSE NONE
  ELSE NONE

\* the operators below OpT.DIV and below OpT.NEQ, which __chk_op sends to
\* Arith and to Comp
ArithOps == {"EXP", "ADD", "SUB", "SEQ", "MATMUL", "MOD", "QUOT", "MUL", "DIV"}
CompOps == {"LSS", "LEQ", "GRT", "GEQ", "EQ", "NEQ"}

RECURSIVE Chk(_, _, _)
RECURSIVE ChkCh(_, _, _, _, _)

\* `for node in ast.ch: self.__chk_hlpr(node)` from child n on: the types of
\* the children checked so far are ts; the first child is checked as an
\* l-value when lval0 holds.  The first exception ends the loop.
ChkCh(ch, n, lval0, env, ts) ==
  IF n > Len(ch) THEN [ts |-> ts, err |-> "OK", env |-> env]
  ELSE LET r == Chk(ch[n], n = 1 /\ lval0, env)
       IN IF r.err # "OK" THEN [ts |-> ts, err |-> r.err, env |-> r.env]
          ELSE ChkCh(ch, n + 1, lval0, r.env, Append(ts, r.t))

\* the end of __chk_idx and __chk_op: t is the answer of the resolver
TOut(t, env) ==
  IF t = RAISE THEN Raise("PY", env)
  ELSE IF t = NONE THEN Raise("SGNTR_NFOUND", env)
  ELSE Ok(t, env)

\* SemanticChk.__chk_idx after the check of the children, whose outcome is c
IdxOut(o, c) ==
  IF c.err # "OK" THEN Raise(c.err, c.env)
  ELSE IF \E i \in 1..Len(c.ts) : c.ts[i].t = "NA"
    THEN Raise("NOT_DEFINE", c.env)
  ELSE TOut(SpTChk(o, c.ts), c.env)

\* SemanticChk.__chk_idx
ChkIdx(ast, lval, env) == IdxOut(ast.v, ChkCh(ast.ch, 1, lval, env, <<>>))

\* SemanticChk.__chk_asgn
ChkAsgn(ast, lval, env) ==
  IF lval THEN Raise("INVALID_LVAL", env)
  ELSE
    LET tar == Chk(ast.ch[1], TRUE, env)
        val == Chk(ast.ch[2], FALSE, tar.env)
    IN IF tar.err # "OK" THEN Raise(tar.err, tar.env)
       ELSE IF val.err # "OK" THEN Raise(val.err, val.env)
       ELSE IF val.t.t = "NA" THEN Raise("NOT_DEFINE", val.env)
       ELSE IF tar.t.t = "NA" \/ ast.ch[1].t = "VAR"
         THEN \* [TAsgn]
           Ok(val.t, UpdateT(val.env, ast.ch[1].v, val.t))
       ELSE \* [TAsgnIdx]
         IF SpTChk(ast.v, <<tar.t, val.t>>) = NONE
         THEN Raise("ASGN_T_MISS", val.env)
         ELSE Ok(val.t, val.env)

\* ArrT that keeps the depth of an array supremum
ArrTSameDept(elem_t, env) ==
  IF elem_t = RAISE THEN Raise("PY", env)
  ELSE IF elem_t = NONE THEN Raise("INHOMO_ELEM", env)
  ELSE IF IsBase(elem_t) THEN Ok(ArrTSym(elem_t, 1), env)
  ELSE IF elem_t.t = "ARR" THEN Ok(ArrTSym(elem_t.elem, elem_t.dept), env)
  ELSE Raise("PY", env)

\* the end of __chk_arr: elem_t is the supremum of the types of the children
ArrT(elem_t, env) ==
  IF elem_t = RAISE THEN Raise("PY", env)
  ELSE IF elem_t = NONE THEN Raise("INHOMO_ELEM", env)
  ELSE IF IsBase(elem_t) THEN Ok(ArrTSym(elem_t, 1), env)
  ELSE IF elem_t.t = "ARR" THEN Ok(ArrTSym(elem_t.elem, elem_t.dept + 1), env)
  ELSE Raise("PY", env)

\* SemanticChk.__chk_arr after the check of the children, whose outcome is c
ArrOut(c) ==
  IF c.err # "OK" THEN Raise(c.err, c.env)
  ELSE IF \E i \in 1..Len(c.ts) : c.ts[i].t = "NA"
    THEN Raise("NOT_DEFINE", c.env)
  ELSE ArrT(Sup(c.ts), c.env)

\* SemanticChk.__chk_arr
ChkArr(ast, lval, env) ==
  IF lval THEN Raise("INVALID_LVAL", env)
  ELSE ArrOut(ChkCh(ast.ch, 1, FALSE, env, <<>>))

\* the resolver __chk_op asks: Arith, Comp or Logi
OpTChk(o, ts) ==
  IF o \in ArithOps THEN ArithTChk(o, ts)
  ELSE IF o \in CompOps THEN CompTChk(o, ts)
  ELSE LogiTChk(o, ts)

\* SemanticChk.__chk_op after the check of the children, whose outcome is c
OpOut(o, c) ==
  IF c.err # "OK" THEN Raise(c.err, c.env)
  ELSE IF \E i \in 1..Len(c.ts) : c.ts[i].t = "NA"
    THEN Raise("NOT_DEFINE", c.env)
  ELSE TOut(OpTChk(o, c.ts), c.env)

\* the check of the children of ^, from right to left
ExpCh(ch, env) ==
  LET r2 == Chk(ch[2], FALSE, env)
      r1 == Chk(ch[1], FALSE, r2.env)
  IN IF r2.err # "OK" THEN [ts |-> <<>>, err |-> r2.err, env |-> r2.env]
     ELSE IF r1.err # "OK" THEN [ts |-> <<>>, err |-> r1.err, env |-> r1.env]
     ELSE [ts |-> <<r1.t, r2.t>>, err |-> "OK", env |-> r1.env]

\* ChkOp that gives back the type table it started with when it fails
ChkOpRollback(ast, lval, env) ==
  IF lval THEN Raise("INVALID_LVAL", env)
  ELSE LET r == OpOut(ast.v, IF ast.v = "EXP" THEN ExpCh(ast.ch, env)
                             ELSE ChkCh(ast.ch, 1, FALSE, env, <<>>))
       IN IF r.err # "OK" THEN Raise(r.err, env) ELSE r

\* SemanticChk.__chk_op
ChkOp(ast, lval, env) ==
  IF lval THEN Raise("INVALID_LVAL", env)
  ELSE OpOut(ast.v, IF ast.v = "EXP" THEN ExpCh(ast.ch, env)
                    ELSE ChkCh(ast.ch, 1, FALSE, env, <<>>))

\* SemanticChk.__chk_mem
ChkMem(ast, lval, env) ==
  IF lval THEN Raise("INVALID_LVAL", env)
  ELSE LET r == Chk(ast.ch[1], FALSE, env)
       IN IF r.err # "OK" THEN r
          ELSE IF r.t.t = "NA" THEN Raise("NOT_DEFINE", r.env)
          ELSE r

\* SemanticChk.__chk_strt
ChkStrt(ast, lval, env) ==
  IF lval THEN Raise("INVALID_LVAL", env)
  ELSE
    LET c == ChkCh(ast.ch, 1, FALSE, env, <<>>)
    IN IF c.err # "OK" THEN Raise(c.err, c.env)
       ELSE IF \E i \in 1..Len(c.ts) : c.ts[i].t = "NA"
         THEN Raise("NOT_DEFINE", c.env)
       ELSE IF \E i, j \in 1..Len(ast.ch) : i < j /\ ast.ch[i].v = ast.ch[j].v
         THEN Raise("ID_DUP", c.env)
       ELSE Ok(StrtTSym([i \in 1..Len(ast.ch) |->
                           [id |-> ast.ch[i].v, t |-> c.ts[i]]]), c.env)

\* ChkFun without the test of the l-value flag
ChkFunNoLVal(ast, lval, env) ==
  LET c == ChkCh(ast.ch, 1, FALSE, env, <<>>)
  IN IF c.err # "OK" THEN Raise(c.err, c.env)
     ELSE IF \E i \in 1..Len(c.ts) : c.ts[i].t = "NA"
       THEN Raise("NOT_DEFINE", c.env)
     ELSE IF ~LeT(FunTSym(c.ts, ast.v.ret), ast.v)
       THEN Raise("SGNTR_NFOUND", c.env)
     ELSE Ok(ast.v.ret, c.env)

\* SemanticChk.__chk_fun for a call without keyword arguments of a function
\* without keyword parameters; the value of the token is the type of the
\* function
ChkFun(ast, lval, env) ==
  IF lval THEN Raise("INVALID_LVAL", env)
  ELSE
    LET c == ChkCh(ast.ch, 1, FALSE, env, <<>>)
    IN IF c.err # "OK" THEN Raise(c.err, c.env)
       ELSE IF \E i \in 1..Len(c.ts) : c.ts[i].t = "NA"
         THEN Raise("NOT_DEFINE", c.env)
       ELSE IF ~LeT(FunTSym(c.ts, ast.v.ret), ast.v)
         THEN Raise("SGNTR_NFOUND", c.env)
       ELSE Ok(ast.v.ret, c.env)

\* SemanticChk.__chk_hlpr, for the tokens of the trees of the model
Chk(ast, lval, env) ==
  IF ast.t \in {"NUM", "BOOL", "STR", "VOID"}
  THEN IF lval THEN Raise("INVALID_LVAL", env)
       ELSE Ok([t |-> ast.t], env)
  ELSE IF ast.t = "VAR" THEN Ok(LookupT(env, ast.v), env)
  ELSE IF ast.t = "MEM" THEN ChkMem(ast, lval, env)
  ELSE IF ast.t = "OP" /\ ast.v = "IDX" THEN ChkIdx(ast, lval, env)
  ELSE IF ast.t = "OP" /\ ast.v = "ASGN" THEN ChkAsgn(ast, lval, env)
  ELSE IF ast.t = "OP" THEN ChkOp(ast, lval, env)
  ELSE IF ast.t = "ARR" THEN ChkArr(ast, lval, env)
  ELSE IF ast.t = "STRT" THEN ChkStrt(ast, lval, env)
  ELSE ChkFun(ast, lval, env)

\* SemanticChk.chk without the final test of the type of the root
ChkTopNoNA(ast, env) == Chk(ast, FALSE, env)

\* the end of SemanticChk.chk: r is the outcome of __chk_hlpr on the root
TopOut(r) ==
  IF r.err = "OK" /\ r.t.t = "NA" THEN Raise("NOT_DEFINE", r.env) ELSE r

\* SemanticChk.chk
ChkTop(ast, env) == TopOut(Chk(ast, FALSE, env))

(***************************************************************************)
(* The syntax trees and type tables the checker is called on.              *)
(***************************************************************************)
\* largest number of items of an array literal
MaxElems == 2
\* largest number of indices of an index expression
MaxIdx == 2

VarIds == {"m", "x"}
Num == Node("NUM", 0, <<>>)
Str == Node("STR", "s", <<>>)
Void == Node("VOID", "", <<>>)
Var(id) == Node("VAR", id, <<>>)
ArrLit(ch) == Node("ARR", "", ch)
Idx(tar, idx) == Node("OP", "IDX", <<tar>> \o idx)
Asgn(tar, val) == Node("OP", "ASGN", <<tar, val>>)
Op(o, ch) == Node("OP", o, ch)
Mem(id, e) == Node("MEM", id, <<e>>)
Strt(ch) == Node("STRT", "", ch)
Fun(f, ch) == Node("FUN", f, ch)

NonEmptySeqs(S, n) == UNION {[1..k -> S] : k \in 1..n}

\* what is written between the brackets of an array literal
Elems == {Num, Str, Void, Var("x"), Strt(<<Mem("a", Num)>>)}
\* [], [0], ["s"], [x], [0, "s"], [{a: 0}], ... and [[0]], [[0, 0]]
ArrLits ==
  {ArrLit(<<>>)}
  \cup {ArrLit(ch) : ch \in NonEmptySeqs(Elems, MaxElems)}
  \cup {ArrLit(<<ArrLit(ch)>>) : ch \in NonEmptySeqs({Num}, MaxElems)}
\* 0 + "s", x ^ 0, (0 = 0) ^ [0, "s"], -x, !0, ...
Opnds ==
  {Num, Str, Var("x"), Asgn(Var("x"), Num), Asgn(Num, Num), ArrLit(<<Num, Str>>)}
OpExprs ==
  {Op(o, <<a, b>>) : o \in {"ADD", "EXP", "EQ", "AND"}, a \in Opnds, b \in Opnds}
  \cup {Op(o, <<a>>) : o \in {"SUB", "NEG"}, a \in Opnds}
\* {a: 0}, {a: x, b: 0}, {a: 0, a: 0}, ...
Strts ==
  {Strt(ch) : ch \in NonEmptySeqs({Mem(id, e) : id \in {"a", "b"},
                                                e \in {Num, Var("x")}}, 2)}
\* calls of a function of one number and of a function of two numbers
FunSyms ==
  {FunTSym(<<NumTSym>>, NumTSym),
   FunTSym(<<NumTSym, NumTSym>>, ArrTSym(NumTSym, 1))}
Funs == {Fun(f, a) : f \in FunSyms, a \in NonEmptySeqs({Num, Str, Var("x")}, 2)}
\* what is written between the brackets of an index expression
IdxArgs == {Num, Void, Str, ArrLit(<<Num>>), Var("x"), Asgn(Num, Num)}
\* m[0], m[0, ], x["s", 0], 0[0], [0][0], ... and m[0][0], ...
Idxs1 ==
  {Idx(tar, idx) : tar \in {Var("m"), Var("x"), Num, ArrLit(<<Num>>)},
                   idx \in NonEmptySeqs(IdxArgs, MaxIdx)}
Idxs2 == {Idx(Idx(Var("m"), <<i>>), <<j>>) : i \in IdxArgs, j \in IdxArgs}
Idxs == Idxs1 \cup Idxs2
\* what cannot be assigned to, bare or indexed
NoLVals ==
  {Num, Str, Void, ArrLit(<<Num>>), Op("ADD", <<Num, Num>>),
   Strt(<<Mem("a", Num)>>), Fun(FunTSym(<<NumTSym>>, NumTSym), <<Num>>),
   Asgn(Var("x"), Num)}
\* the two sides of an assignment
Tars ==
  {Var("m"), Var("x")} \cup Idxs \cup NoLVals
  \cup {Idx(tar, <<Num>>) : tar \in NoLVals}
Vals2 ==
  {Num, Str, Void, Var("x"), Var("m"), Idx(Var("m"), <<Num>>),
   Asgn(Var("x"), Num), Asgn(Num, Num), Op("ADD", <<Var("x"), Num>>),
   Strt(<<Mem("a", Var("x"))>>)}
  \cup {ArrLit(ch) : ch \in NonEmptySeqs({Num}, MaxElems)}
Asgns == {Asgn(tar, val) : tar \in Tars, val \in Vals2}
Lines ==
  {Num, Str, Void, Var("m"), Var("x")} \cup ArrLits \cup OpExprs \cup Strts
  \cup Funs \cup Idxs \cup Asgns

\* the type tables: every variable unassigned or of a number, string or
\* array type
VarTs == {NATSym, NumTSym, StrTSym} \cup {ArrTSym(NumTSym, d) : d \in 1..MaxDept}
Envs == [VarIds -> VarTs]

(***************************************************************************)
(* The specification of the checker: one line checked under one type       *)
(* table.                                                                  *)
(***************************************************************************)
CallChk ==
  /\ op = "init"
  /\ \E env \in Envs, ast \in Lines :
       /\ op' = "chk"
       /\ arg' = <<env, ast>>
       /\ out' = ChkTop(ast, env)

CNext == CallChk

CSpec == Init /\ [][CNext]_vars

(***************************************************************************)
(* The specification of the operator resolvers (Core/Operator.py): one     *)
(* call of a type rule on argument types drawn from the type universe.     *)
(***************************************************************************)
\* the types the indices of an index expression are drawn from
IdxTs == BaseTs \cup ArrTs \cup {FunTSym(<<>>, NumTSym)}

CallIdxT ==
  /\ op = "init"
  /\ \E t1 \in Types, t2 \in NonEmptySeqs(IdxTs, MaxIdx) :
       /\ op' = "idx_t"
       /\ arg' = <<t1, t2>>
       /\ out' = SpTChk("IDX", <<t1>> \o t2)

CallArithT ==
  /\ op = "init"
  /\ \E o \in ArithOps, a \in NonEmptySeqs(Types, 2) :
       /\ op' = "arith_t"
       /\ arg' = <<o, a>>
       /\ out' = ArithTChk(o, a)

ONext == CallIdxT \/ CallArithT

OSpec == Init /\ [][ONext]_vars

(***************************************************************************)
(* PROPERTIES OF THE TYPE LATTICE                                          *)
(***************************************************************************)
RECURSIVE WellT(_)
\* x is a type: neither None nor a raised exception, at any level
WellT(x) ==
  IF x.t \in {"NUM", "BOOL", "STR", "VOID"} THEN TRUE
  ELSE IF x.t = "ARR" THEN WellT(x.elem)
  ELSE IF x.t = "FUN"
    THEN (\A i \in 1..Len(x.args) : WellT(x.args[i])) /\ WellT(x.ret)
  ELSE IF x.t = "STRT" THEN \A i \in 1..Len(x.elem) : WellT(x.elem[i].t)
  ELSE FALSE

RECURSIVE SameT(_, _)
\* structural equality of two outcomes of sup: the same variant with the
\* same parts at every level, the order of struct members aside
SameT(a, b) ==
  IF a.t # b.t THEN FALSE
  ELSE IF a.t = "ARR" THEN SameT(a.elem, b.elem) /\ a.dept = b.dept
  ELSE IF a.t = "FUN"
    THEN /\ Len(a.args) = Len(b.args)
         /\ \A i \in 1..Len(a.args) : SameT(a.args[i], b.args[i])
         /\ SameT(a.ret, b.ret)
  ELSE IF a.t = "STRT"
    THEN /\ Keys(a.elem) = Keys(b.elem)
         /\ \A k \in Keys(a.elem) : SameT(Lookup(a.elem, k), Lookup(b.elem, k))
  ELSE TRUE

\* C4: the supremum of two function types is Function(argument suprema,
\* return supremum) when the arities are equal and every argument pair and
\* the return pair have a supremum, and is None in every other case.
C4_FunSup ==
  (op = "sup" /\ arg[1].t = "FUN" /\ arg[2].t = "FUN") =>
    LET a == arg[1]
        b == arg[2]
        defined ==
          /\ Len(a.args) = Len(b.args)
          /\ \A i \in 1..Len(a.args) : WellT(Sup(<<a.args[i], b.args[i]>>))
          /\ WellT(Sup(<<a.ret, b.ret>>))
    IN IF defined
       THEN out = FunTSym([i \in 1..Len(a.args) |-> Sup(<<a.args[i], b.args[i]>>)],
                          Sup(<<a.ret, b.ret>>))
       ELSE out = NONE

\* C5: supremum agrees with subtyping: when b <: a, supremum([a, b]) is a,
\* and supremum([Void, t]) is t for every type t.
C5_SupOfSubtype ==
  op = "sup" =>
    /\ LeT(arg[2], arg[1]) => SameT(out, arg[1])
    /\ arg[1].t = "VOID" => SameT(out, arg[2])

\* C6: supremum([a, b]) and supremum([b, a]) are both None or are
\* structurally equal types.
C6_SupCommutes ==
  op = "sup" =>
    LET rev == Sup(<<arg[2], arg[1]>>)
    IN \/ out = NONE /\ rev = NONE
       \/ WellT(out) /\ WellT(rev) /\ SameT(out, rev)

\* C7: subtype(t, t) and subtype(Void, t) hold for every NA-free type t.
C7_SubReflVoid ==
  op = "le" =>
    /\ arg[1] = arg[2] => out = TRUE
    /\ arg[1].t = "VOID" => out = TRUE

\* C7 witness: t <: t was decided for a function type of two arguments
C7_Witness ==
  /\ op = "le"
  /\ arg[1] = arg[2]
  /\ arg[1].t = "FUN"
  /\ Len(arg[1].args) = 2
  /\ out = TRUE


(***************************************************************************)
(* PROPERTIES OF THE ARRAY ALGEBRA                                         *)
(***************************************************************************)
RECURSIVE SameV(_, _)
\* structural equality of two values: same class, same dim, same elements
SameV(x, y) ==
  /\ x.k = y.k
  /\ IF x.k = "Sc" THEN x.v = y.v
     ELSE IF x.k \in {"Vec", "Mat", "Arr"}
     THEN /\ x.dim = y.dim
          /\ Len(x.elem) = Len(y.elem)
          /\ \A i \in 1..Len(x.elem) : SameV(x.elem[i], y.elem[i])
     ELSE x = y

RECURSIVE ListIds(_)
\* the ids of the lists reachable from a value
ListIds(x) ==
  IF x.k \in {"Vec", "Mat", "Arr"}
  THEN {x.id} \cup UNION {ListIds(x.elem[i]) : i \in 1..Len(x.elem)}
  ELSE {}

\* the chain of Len(p) single indices p, given as integers
SnglChain(p) == [i \in 1..Len(p) |-> Sngl(2 * p[i])]
\* the positions of a value of shape dim
Positions(dim) ==
  {p \in [1..Len(dim) -> 0..(MaxDim - 1)] : \A i \in 1..Len(dim) : p[i] < dim[i]}
\* idx is a chain of single indices that round to a position of v
IsPosition(v, idx) ==
  /\ Len(idx) = Dept(v)
  /\ \A i \in 1..Len(idx) :
       idx[i].s = "Sngl" /\ Round(idx[i].v) >= 0 /\ Round(idx[i].v) < v.dim[i]
\* the position a chain of single indices rounds to
PositionOf(idx) == [i \in 1..Len(idx) |-> Round(idx[i].v)]

\* C1: degrading n times what promoting n times made gives a value
\* structurally equal to the one promoted, for every array value and n >= 0.
C1_DegradePromote == op = "degrade" => SameV(out, arg[1])

\* C3: an update whose chain holds an empty List selector, all other
\* selectors being All, fails with EMPTY_IDX.
C3_UpdateEmptyIdx ==
  (/\ op = "update"
   /\ \E i \in 1..Len(arg[2]) : arg[2][i] = List(<<>>)
   /\ \A i \in 1..Len(arg[2]) : arg[2][i] \in {List(<<>>), All})
  => out.r = Err("EMPTY_IDX")

\* C8: getting a value of depth d through a chain of d All selectors returns
\* a value of the same class, dim and elements.
C8_GetAll ==
  (/\ op = "get"
   /\ Len(arg[2]) = Dept(arg[1])
   /\ \A i \in 1..Len(arg[2]) : arg[2][i] = All)
  => SameV(out, arg[1])

C8_Witness ==
  /\ op = "get"
  /\ arg[1].dim = <<2, 1, 2>>
  /\ arg[2] = <<All, All, All>>
  /\ out.k = "Arr"
  /\ out.dim = <<2, 1, 2>>

\* C9: updating a value of depth d at a chain of d in-bound single indices
\* with a base-type object succeeds; the result has the shape of the value,
\* holds the object at the position of the chain and, at every other
\* position, what the value held there.
C9_UpdateSngl ==
  (op = "update" /\ IsPosition(arg[1], arg[2]) /\ arg[3].k = "Sc")
  => /\ ~IsErr(out.r)
     /\ out.r.k = arg[1].k
     /\ out.r.dim = arg[1].dim
     /\ Get(out.r, arg[2]) = arg[3]
     /\ \A p \in Positions(arg[1].dim) :
          p # PositionOf(arg[2])
          => Get(out.r, SnglChain(p)) = Get(arg[1], SnglChain(p))

C9_Witness ==
  /\ op = "update"
  /\ arg[1].dim = <<2, 2, 2>>
  /\ arg[2] = <<Sngl(2), Sngl(1), Sngl(2)>>
  /\ arg[3] = Sc(99)
  /\ ~IsErr(out.r)
  /\ Get(out.r, SnglChain(<<1, 0, 1>>)) = Sc(99)
  /\ Get(out.r, SnglChain(<<1, 1, 1>>)) = Sc(8)

\* C10: an update, returning or failing, assigns to no list of its inputs,
\* and no list of the value it returns is a list of the value updated or of
\* the value assigned.
C10_UpdatePure ==
  op = "update"
  => /\ out.w \subseteq {Fresh}
     /\ ~IsErr(out.r) => ListIds(out.r) \subseteq {Fresh}

C10_Witness ==
  /\ op = "update"
  /\ arg[1].k = "Arr"
  /\ arg[2] = <<All, List(<<2, 0>>)>>
  /\ arg[3].k = "Mat"
  /\ ~IsErr(out.r)
  /\ out.w = {Fresh}
  /\ ListIds(arg[1]) \cap ListIds(out.r) = {}
  /\ ListIds(arg[3]) \cap ListIds(out.r) = {}

(***************************************************************************)
(* PROPERTIES OF THE CHECKER                                               *)
(***************************************************************************)
RECURSIVE RootOf(_)
\* the node an index expression is rooted at
RootOf(ast) ==
  IF ast.t = "OP" /\ ast.v = "IDX" THEN RootOf(ast.ch[1]) ELSE ast

\* C2: an assignment whose target is an index expression rooted at a defined
\* variable and to which the checker gives a type, and whose value has a
\* subtype of that type, passes the check with the type of the value.
C2_AsgnIdx ==
  (/\ op = "chk"
   /\ arg[2].t = "OP" /\ arg[2].v = "ASGN"
   /\ arg[2].ch[1].t = "OP" /\ arg[2].ch[1].v = "IDX"
   /\ RootOf(arg[2].ch[1]).t = "VAR"
   /\ LookupT(arg[1], RootOf(arg[2].ch[1]).v) # NATSym
   /\ LET tar == Chk(arg[2].ch[1], TRUE, arg[1])
          val == Chk(arg[2].ch[2], FALSE, tar.env)
      IN /\ tar.err = "OK" /\ val.err = "OK"
         /\ tar.t.t # "NA" /\ val.t.t # "NA"
         /\ LeT(val.t, tar.t))
  => /\ out.err = "OK"
     /\ out.t = Chk(arg[2].ch[2], FALSE, Chk(arg[2].ch[1], TRUE, arg[1]).env).t

(***************************************************************************)
(* PROPERTIES OF GET AND UPDATE ON SELECTED POSITIONS                      *)
(***************************************************************************)
\* the value whose leading axis a chain selects on: self, promoted to the
\* length of the chain
Lead(v, idx) == IF Len(idx) > Dept(v) THEN Promote(v, Len(idx) - Dept(v)) ELSE v
\* the chain brought to the depth of the value
FullIdx(v, idx) == IF Len(idx) < Dept(v) THEN Pad(idx, Dept(v) - Len(idx)) ELSE idx
\* a child indexed by the rest of a chain; an item of a Vec is taken as is
ChildGet(c, rest) == IF Len(rest) = 0 THEN c ELSE Get(c, rest)
\* the listed positions of an index list, and those out of the leading axis
Listed(sel) == [n \in 1..Len(sel.v) |-> Round(sel.v[n])]
OutListed(v, sel) ==
  {n \in 1..Len(sel.v) : Listed(sel)[n] < 0 \/ Listed(sel)[n] >= v.dim[1]}
\* the children at the listed positions up to the n-th, indexed by the rest
Picked(v, idx, n) ==
  [k \in 1..n |-> ChildGet(v.elem[Listed(idx[1])[k] + 1], Rest(idx))]

\* the parts of C11 on the empty list, on the lists all in bound and on the
\* single index
C11_Rest(v, idx) ==
  LET sel == idx[1]
  IN /\ (sel.s = "List" /\ Len(sel.v) = 0) => out = Err("EMPTY_IDX")
     /\ (sel.s = "List" /\ Len(sel.v) > 0 /\ OutListed(v, sel) = {})
        => LET r == Picked(v, idx, Len(sel.v))
           IN IF \E k \in 1..Len(r) : IsErr(r[k]) THEN IsErr(out)
              ELSE /\ IsArr(out)
                   /\ out.elem = r
                   /\ out.dim[1] = Len(sel.v)
     /\ (sel.s = "Sngl" /\ (Round(sel.v) < 0 \/ Round(sel.v) >= v.dim[1]))
        => out = Err("IDX_BOUND")

C12_MatUpdateAll ==
  (op = "update" /\ arg[1].k = "Mat" /\ arg[2] = <<All>>)
  => /\ (arg[3].k = "Mat" /\ arg[3].dim = arg[1].dim)
        => ~IsErr(out.r) /\ SameV(out.r, arg[3])
     /\ arg[3].k = "Sc"
        => /\ ~IsErr(out.r)
           /\ out.r.k = "Mat"
           /\ out.r.dim = arg[1].dim
           /\ Len(out.r.elem) = arg[1].dim[1]
           /\ \A i \in 1..Len(out.r.elem) :
                /\ out.r.elem[i].k = "Vec"
                /\ out.r.elem[i].dim = <<arg[1].dim[2]>>
                /\ out.r.elem[i].elem = [j \in 1..arg[1].dim[2] |-> arg[3]]

C12_Witness ==
  /\ op = "update"
  /\ arg[1].k = "Mat"
  /\ arg[1].dim = <<2, 2>>
  /\ arg[2] = <<All>>
  /\ arg[3].k = "Mat"
  /\ arg[3].dim = <<2, 2>>
  /\ ~IsErr(out.r)
  /\ out.r.k = "Mat"
  /\ Get(out.r, SnglChain(<<1, 0>>)) = Sc(103)

\* the class of val selects the componentwise branches of self.update:
\* isinstance(val, Arr) in Arr, isinstance(val, Mat) in Mat, type(val) == Vec
\* in Vec
CompMode(self, val) ==
  IF self.k = "Arr" THEN IsArr(val)
  ELSE IF self.k = "Mat" THEN IsMat(val)
  ELSE val.k = "Vec"

\* a child updated through the rest of a chain; an item of a Vec is replaced
ChildUp(c, rest, x) == IF Len(rest) = 0 THEN x ELSE Update(c, rest, x).r

RECURSIVE SeqUp(_, _, _, _, _, _)
\* the child c at position j after the rounds k, k + 1, ... of an index list:
\* every round that lists j updates it with the item of val of that round
SeqUp(c, j, sel, rest, val, k) ==
  IF k > Len(sel.v) \/ IsErr(c) THEN c
  ELSE SeqUp(IF Listed(sel)[k] = j THEN ChildUp(c, rest, val.elem[k]) ELSE c,
             j, sel, rest, val, k + 1)

\* the outcome is the value v with its children replaced by exp, or a
\* failure if one of exp is
IsUpdatedTo(v, exp) ==
  IF \E j \in 1..Len(exp) : IsErr(exp[j]) THEN IsErr(out.r)
  ELSE /\ ~IsErr(out.r)
       /\ out.r.k = v.k
       /\ out.r.dim = v.dim
       /\ Len(out.r.elem) = Len(exp)
       /\ \A j \in 1..Len(exp) : SameV(out.r.elem[j], exp[j])

\* the statement of C13 for the value v, the chain idx brought to the depth
\* of v and the array val
C13_Body(v, idx, val) ==
  LET sel == idx[1]
      rest == Rest(idx)
  IN /\ sel.s = "All"
        => IF val.dim[1] # v.dim[1] THEN out.r = Err("ASGN_N_MISS")
           ELSE IsUpdatedTo(v, [j \in 1..v.dim[1] |->
                                  ChildUp(v.elem[j], rest, val.elem[j])])
     /\ sel.s = "List"
        => IF Len(sel.v) # val.dim[1] THEN out.r = Err("ASGN_N_MISS")
           ELSE OutListed(v, sel) = {}
                => IsUpdatedTo(v, [j \in 1..v.dim[1] |->
                                     SeqUp(v.elem[j], j - 1, sel, rest, val, 1)])

IsSnglT(t) == t # VoidTSym /\ LeT(t, NumTSym)
\* an index type that takes no level off: Void or a subtype of Array(Num, 1)
IsKeepT(t) == t = VoidTSym \/ LeT(t, ArrTSym(NumTSym, 1))

\* C14: the type of an index expression on a target of type t1 with indices
\* of the types t2[1..k].  The depth is max(depth(t1), k) for an array
\* target and k otherwise, less the number of non-Void indices that are
\* subtypes of Num; it is never negative.  If some index is neither such a
\* subtype, nor Void, nor a subtype of Array(Num, 1), there is no type;
\* otherwise the type is Array(elem, depth) when depth > 0 and elem when
\* depth = 0, elem being t1.elem for an array target and t1 otherwise.
C14_IdxRule ==
  op = "idx_t"
  => LET t1 == arg[1]
         t2 == arg[2]
         k == Len(t2)
         depth == (IF t1.t = "ARR" THEN Max(t1.dept, k) ELSE k)
                  - Cardinality({i \in 1..k : IsSnglT(t2[i])})
         elem == IF t1.t = "ARR" THEN t1.elem ELSE t1
     IN /\ depth >= 0
        /\ IF \E i \in 1..k : ~(IsSnglT(t2[i]) \/ IsKeepT(t2[i])) THEN out = NONE
           ELSE out = IF depth > 0 THEN ArrTSym(elem, depth) ELSE elem

C14_Witness ==
  /\ op = "idx_t"
  /\ arg[1] = ArrTSym(NumTSym, 1)
  /\ arg[2] = <<VoidTSym, NumTSym>>
  /\ out = ArrTSym(NumTSym, 1)

\* C19: for the binary operators -, /, %%, %/% and ^ on the operand types
\* (a, b) the resolver answers Num when the supremum of a and b exists and
\* is a subtype of Num, Array(Num, n) when the supremum is Array(e, n) with
\* e a subtype of Num, and no signature in every other case.
C19_ArithBin ==
  (/\ op = "arith_t"
   /\ arg[1] \in {"SUB", "DIV", "MOD", "QUOT", "EXP"}
   /\ Len(arg[2]) = 2)
  => LET sup_t == Sup(arg[2])
     IN IF sup_t \in {NONE, RAISE} THEN out = NONE
        ELSE IF LeT(sup_t, NumTSym) THEN out = NumTSym
        ELSE IF sup_t.t = "ARR" /\ LeT(sup_t.elem, NumTSym)
          THEN out = ArrTSym(NumTSym, sup_t.dept)
        ELSE out = NONE

(***************************************************************************)
(* PROPERTIES OF THE CHECKER ON ASSIGNMENTS, LITERALS AND VARIABLES        *)
(***************************************************************************)
\* the line checked is an assignment
IsAsgnLine == op = "chk" /\ arg[2].t = "OP" /\ arg[2].v = "ASGN"
\* a bare variable or an index chain rooted at a variable
IsLValTar(tar) == RootOf(tar).t = "VAR"

RECURSIVE HasBadAsgn(_)
\* some assignment of the tree has a target that is neither
HasBadAsgn(ast) ==
  \/ /\ ast.t = "OP" /\ ast.v = "ASGN"
     /\ ~IsLValTar(ast.ch[1])
  \/ \E i \in 1..Len(ast.ch) : HasBadAsgn(ast.ch[i])

\* C15 as stated: an assignment fails with INVALID_LVAL exactly when its
\* target is not a bare variable or an index chain rooted at a variable.
C15_InvalidLValStated ==
  IsAsgnLine => (out.err = "INVALID_LVAL" <=> ~IsLValTar(arg[2].ch[1]))

\* C15: an assignment fails with INVALID_LVAL whenever its target is not a
\* bare variable or an index chain rooted at a variable; with such a target
\* it fails with INVALID_LVAL only because of an assignment nested in its
\* indices or in its value whose own target is not one.
C15_InvalidLVal ==
  IsAsgnLine =>
    /\ ~IsLValTar(arg[2].ch[1]) => out.err = "INVALID_LVAL"
    /\ (IsLValTar(arg[2].ch[1]) /\ out.err = "INVALID_LVAL")
         => HasBadAsgn(arg[2].ch[1]) \/ HasBadAsgn(arg[2].ch[2])

C15_Witness ==
  /\ IsAsgnLine
  /\ arg[2].ch[1] = Idx(Fun(FunTSym(<<NumTSym>>, NumTSym), <<Num>>), <<Num>>)
  /\ arg[2].ch[2] = Num
  /\ out.err = "INVALID_LVAL"

\* the line checked is an array literal whose children pass the check with
\* NA-free types
ChTs == ChkCh(arg[2].ch, 1, FALSE, arg[1], <<>>)
IsArrLine ==
  /\ op = "chk" /\ arg[2].t = "ARR"
  /\ ChTs.err = "OK"
  /\ \A i \in 1..Len(ChTs.ts) : ChTs.ts[i].t # "NA"
\* the upper bounds of a list of types under <:, and the least of them
Ubs(ts) ==
  {u \in Types \cup {ts[i] : i \in 1..Len(ts)} :
     \A i \in 1..Len(ts) : LeT(ts[i], u)}
Lubs(ts) == {s \in Ubs(ts) : \A u \in Ubs(ts) : LeT(s, u)}

\* C16: an array literal whose children have NA-free types fails with
\* INHOMO_ELEM when it is empty or its child types have no supremum, has type
\* Array(b, 1) when the supremum is a base type b, and type Array(e, n + 1)
\* when the supremum is Array(e, n).
C16_ArrLit ==
  IsArrLine =>
    /\ (Len(ChTs.ts) = 0 \/ Lubs(ChTs.ts) = {}) => out.err = "INHOMO_ELEM"
    /\ Len(ChTs.ts) > 0 =>
         \A s \in Lubs(ChTs.ts) :
           /\ IsBase(s) => out.err = "OK" /\ out.t = ArrTSym(s, 1)
           /\ s.t = "ARR" =>
                out.err = "OK" /\ out.t = ArrTSym(s.elem, s.dept + 1)

\* C16 witness: [x, 0] was checked with x an array of numbers of depth 1
C16_Witness ==
  /\ IsArrLine
  /\ arg[2].ch = <<Var("x"), Num>>
  /\ arg[1]["x"] = ArrTSym(NumTSym, 1)
  /\ out.err = "OK" /\ out.t = ArrTSym(NumTSym, 2)

RECURSIVE Assigns(_, _)
\* some assignment of the tree has the bare variable id as target
Assigns(ast, id) ==
  \/ /\ ast.t = "OP" /\ ast.v = "ASGN"
     /\ ast.ch[1].t = "VAR" /\ ast.ch[1].v = id
  \/ \E i \in 1..Len(ast.ch) : Assigns(ast.ch[i], id)

\* the expressions a node reads: its children, the member values of a struct
\* literal, and all but the bare-variable target of an assignment
Reads(ast) ==
  IF ast.t = "STRT" THEN {ast.ch[i].ch[1] : i \in 1..Len(ast.ch)}
  ELSE IF ast.t = "OP" /\ ast.v = "ASGN" /\ ast.ch[1].t = "VAR" THEN {ast.ch[2]}
  ELSE {ast.ch[i] : i \in 1..Len(ast.ch)}
\* the node reads a variable that no part of the line assigns and that the
\* type table does not hold
ReadsNA(ast, env) ==
  \E c \in Reads(ast) :
    /\ c.t = "VAR" /\ LookupT(env, c.v) = NATSym
    /\ ~Assigns(ast, c.v)
\* the first error raised by the check of the children of a node, in the
\* order the node checks them
SibErr(ast, env) ==
  IF ast.t = "OP" /\ ast.v = "ASGN"
  THEN LET tar == Chk(ast.ch[1], TRUE, env)
       IN IF tar.err # "OK" THEN tar.err
          ELSE Chk(ast.ch[2], FALSE, tar.env).err
  ELSE IF ast.t = "OP" /\ ast.v = "EXP"
  THEN LET r2 == Chk(ast.ch[2], FALSE, env)
       IN IF r2.err # "OK" THEN r2.err
          ELSE Chk(ast.ch[1], FALSE, r2.env).err
  ELSE ChkCh(ast.ch, 1, FALSE, env, <<>>).err

\* C17 as stated: a line that is an unassigned variable, or that reads one
\* as operand, base, index, element, member value, argument or assigned
\* value, fails with NOT_DEFINE.
C17_NotDefinedStated ==
  (/\ op = "chk"
   /\ \/ arg[2].t = "VAR" /\ LookupT(arg[1], arg[2].v) = NATSym
      \/ ReadsNA(arg[2], arg[1]))
  => out.err = "NOT_DEFINE"

\* C17: a line that is an unassigned variable fails with NOT_DEFINE; a line
\* that reads one as operand, base, index, element, member value, argument
\* or assigned value fails, with the error of the first child whose own
\* check fails and with NOT_DEFINE when every child passes its own check; an
\* assignment to a bare unassigned variable of a value that passes the check
\* with a type passes.
C17_NotDefined ==
  op = "chk" =>
    /\ (arg[2].t = "VAR" /\ LookupT(arg[1], arg[2].v) = NATSym)
         => out.err = "NOT_DEFINE"
    /\ ReadsNA(arg[2], arg[1])
         => out.err = (IF SibErr(arg[2], arg[1]) = "OK" THEN "NOT_DEFINE"
                       ELSE SibErr(arg[2], arg[1]))
    /\ (/\ IsAsgnLine
        /\ arg[2].ch[1].t = "VAR" /\ LookupT(arg[1], arg[2].ch[1].v) = NATSym
        /\ Chk(arg[2].ch[2], FALSE, arg[1]).err = "OK"
        /\ Chk(arg[2].ch[2], FALSE, arg[1]).t.t # "NA")
         => out.err = "OK"

\* C17 witness: 0 + x was checked with x unassigned
C17_Witness ==
  /\ op = "chk"
  /\ arg[2] = Op("ADD", <<Num, Var("x")>>)
  /\ arg[1]["x"] = NATSym
  /\ out.err = "NOT_DEFINE"

\* C18: an assignment to an index expression that passes the check with a
\* type, of a value that passes the check with a type that is not a subtype
\* of it, fails with ASGN_T_MISS.
C18_AsgnTypeMiss ==
  (/\ IsAsgnLine
   /\ arg[2].ch[1].t = "OP" /\ arg[2].ch[1].v = "IDX"
   /\ LET tar == Chk(arg[2].ch[1], TRUE, arg[1])
          val == Chk(arg[2].ch[2], FALSE, tar.env)
      IN /\ tar.err = "OK" /\ val.err = "OK"
         /\ val.t.t # "NA"
         /\ ~LeT(val.t, tar.t))
  => out.err = "ASGN_T_MISS"

\* C18 witness: m[0, 0] = "s" was checked with m an array of numbers of
\* depth 2
C18_Witness ==
  /\ IsAsgnLine
  /\ arg[2].ch[1] = Idx(Var("m"), <<Num, Num>>)
  /\ arg[2].ch[2] = Str
  /\ arg[1]["m"] = ArrTSym(NumTSym, 2)
  /\ Chk(arg[2].ch[1], TRUE, arg[1]).t = NumTSym
  /\ out.err = "ASGN_T_MISS"

(***************************************************************************)
(* THE READ-CHECK-INTERPRET LOOP  (Main.py, Core/Interpreter.py)           *)
(*                                                                         *)
(* The interpreter is modelled for the nodes that pass the check in the    *)
(* lines below: literals, variables, array literals and assignments to a   *)
(* bare variable.  A value is a base-type object (Sc, ScStr) or an array   *)
(* value; None stands for a variable without value.  Every node of these   *)
(* lines is checked under the type table the line starts with, so that the *)
(* type the checker leaves on a node is the one Chk gives under that table.*)
(***************************************************************************)
\* a string object
ScStr(x) == [k |-> "Str", v |-> x]

\* SymTab.lookup_v and SymTab.update_v
LookupV(vt, k) == vt[k]
\* update_v that writes nothing
UpdateVSkip(vt, k, v) == vt
UpdateV(vt, k, v) == [vt EXCEPT ![k] = v]

\* the outcome of the interpretation of a node: its value and the value table
Val(v, vt) == [v |-> v, err |-> "OK", vt |-> vt]
IRaise(errno, vt) == [v |-> NoneV, err |-> errno, vt |-> vt]

RECURSIVE InterpHlpr(_, _, _, _)
RECURSIVE InterpCh(_, _, _, _, _)
\* the interpretation of the children of a node, from left to right
InterpCh(ch, n, tt, vt, vs) ==
  IF n > Len(ch) THEN [vs |-> vs, err |-> "OK", vt |-> vt]
  ELSE LET r == InterpHlpr(ch[n], FALSE, tt, vt)
       IN IF r.err # "OK" THEN [vs |-> vs, err |-> r.err, vt |-> r.vt]
          ELSE InterpCh(ch, n + 1, tt, r.vt, Append(vs, r.v))

\* the item of an array of depth dept made of the value of a child
ArrItem(v, dept) ==
  IF IsArr(v) THEN Promote(DeepCopy(v), dept - Dept(v) - 1)
  ELSE IF dept > 1
    THEN Promote(Obj("Vec", NewList(<<DeepCopy(v)>>), <<1>>), dept - 2)
  ELSE DeepCopy(v)
\* dim_new
ItemDim(v, dept) == IF IsArr(v) \/ dept > 1 THEN ArrItem(v, dept).dim ELSE <<>>

\* Interp.__interp_arr after the interpretation of the children, whose
\* outcome is c, for a node of type Array(., dept)
ArrOf(c, dept) ==
  LET elem == [i \in 1..Len(c.vs) |-> ArrItem(c.vs[i], dept)]
      dims == [i \in 1..Len(c.vs) |-> ItemDim(c.vs[i], dept)]
      dim == <<Len(c.vs)>> \o dims[Len(dims)]
  IN IF c.err # "OK" THEN IRaise(c.err, c.vt)
     ELSE IF \E i \in 2..Len(dims) : Len(dims[i - 1]) # 0 /\ dims[i - 1] # dims[i]
       THEN IRaise("DIM_MISMATCH", c.vt)
     ELSE IF dept = 1 THEN Val(Obj("Vec", NewList(elem), <<Len(elem)>>), c.vt)
     ELSE IF dept = 2 THEN Val(Obj("Mat", NewList(elem), dim), c.vt)
     ELSE Val(Obj("Arr", NewList(elem), dim), c.vt)

\* Interp.__interp_arr
InterpArr(ast, tt, vt) ==
  ArrOf(InterpCh(ast.ch, 1, tt, vt, <<>>), Chk(ast, FALSE, tt).t.dept)

\* Interp.__interp_asgn, for a target that is a bare variable
InterpAsgn(ast, tt, vt) ==
  LET tar == InterpHlpr(ast.ch[1], TRUE, tt, vt)
      val == InterpHlpr(ast.ch[2], FALSE, tt, tar.vt)
  IN IF tar.err # "OK" THEN tar
     ELSE IF val.err # "OK" THEN val
     ELSE Val(val.v, UpdateV(val.vt, tar.v, val.v))

\* Interp.__interp_hlpr
InterpHlpr(ast, lval, tt, vt) ==
  IF ast.t = "VAR"
  THEN IF lval THEN Val(ast.v, vt) ELSE Val(LookupV(vt, ast.v), vt)
  ELSE IF ast.t = "NUM" THEN Val(Sc(ast.v), vt)
  ELSE IF ast.t \in {"STR", "VOID"} THEN Val(ScStr(ast.v), vt)
  ELSE IF ast.t = "OP" /\ ast.v = "ASGN" THEN InterpAsgn(ast, tt, vt)
  ELSE InterpArr(ast, tt, vt)

\* the largest number of lines read
MaxLines == 3

\* the expressions of the lines that pass the check
RExprs ==
  {Num, Str, Var("x"), Var("m"), ArrLit(<<Num>>), ArrLit(<<Num, Num>>),
   ArrLit(<<Var("x")>>), ArrLit(<<Var("x"), Var("m")>>)}
\* x = 0, m = [x], x = m = 0, ...
RAsgns ==
  {Asgn(Var(id), e) : id \in VarIds, e \in RExprs}
  \cup {Asgn(Var("x"), Asgn(Var("m"), e)) : e \in {Num, ArrLit(<<Num>>)}}
\* lines that fail the check whatever the type table
RFails ==
  {Asgn(Num, Num), Asgn(Idx(Var("m"), <<Num>>), Num),
   Asgn(Var("x"), ArrLit(<<Num, Str>>)),
   ArrLit(<<Asgn(Var("x"), Str), Asgn(Num, Num)>>),
   Strt(<<Mem("a", Num), Mem("a", Num)>>),
   Fun(FunTSym(<<NumTSym>>, NumTSym), <<Str>>),
   Op("ADD", <<Asgn(Var("m"), Num), ArrLit(<<>>)>>)}
RLines == RExprs \cup RAsgns \cup RFails

\* the state of the loop: the type table, the value table, the type table
\* the line read last started with, the number of lines read, and the error
\* that ended the program
Tabs(t, v, t0, n, err) == [t |-> t, v |-> v, t0 |-> t0, n |-> n, err |-> err]

\* InitMan.inst().init(): both tables empty
RInit ==
  /\ op = "read"
  /\ arg = <<>>
  /\ out = Tabs([id \in VarIds |-> NATSym], [id \in VarIds |-> NoneV],
                [id \in VarIds |-> NATSym], 0, "OK")

\* Reader.readline and Parser.parse: a line is read and parsed
ReadLine ==
  /\ op = "read"
  /\ out.n < MaxLines
  /\ \E ast \in RLines :
       /\ op' = "chk"
       /\ arg' = <<ast>>
       /\ out' = [out EXCEPT !.n = out.n + 1]

\* ChkLine with the error of the check caught and the line interpreted
ChkLineCaught ==
  /\ op = "chk"
  /\ \E r \in {ChkTop(arg[1], out.t)} :
       /\ op' = "interp"
       /\ out' = Tabs(r.env, out.v, out.t, out.n, r.err)
  /\ UNCHANGED arg

\* SemanticChk.chk on the line: a SemanticChkErr is caught nowhere and ends
\* the program
ChkLine ==
  /\ op = "chk"
  /\ \E r \in {ChkTop(arg[1], out.t)} :
       /\ op' = IF r.err = "OK" THEN "interp" ELSE "halt"
       /\ out' = Tabs(r.env, out.v, out.t, out.n, r.err)
  /\ UNCHANGED arg

\* Interp.test on the checked line: an InterpErr ends the program as well
InterpLine ==
  /\ op = "interp"
  /\ \E r \in {InterpHlpr(arg[1], FALSE, out.t0, out.v)} :
       /\ op' = IF r.err = "OK" THEN "read" ELSE "halt"
       /\ out' = [out EXCEPT !.v = r.vt, !.err = r.err]
  /\ UNCHANGED arg

RNext == ReadLine \/ ChkLine \/ InterpLine

RSpec == RInit /\ [][RNext]_vars

(***************************************************************************)
(* PROPERTIES OF THE LOOP                                                  *)
(***************************************************************************)
\* C20: when the check of a line fails, the line is never interpreted: the
\* program ends on the failed check with the value table it had before the
\* line, and takes no step after that.
C20_FailedChkFrame ==
  [][/\ op # "halt"
     /\ (op = "chk" /\ ChkTop(arg[1], out.t).err # "OK")
          => /\ op' = "halt"
             /\ out'.v = out.v]_vars

\* C20 witness: the check of a line failed after x and m got different
\* values, and after the failed line had written a type for x
C20_Witness ==
  /\ op = "halt"
  /\ arg[1] = ArrLit(<<Asgn(Var("x"), Str), Asgn(Num, Num)>>)
  /\ out.err = "INVALID_LVAL"
  /\ out.v["x"] = Sc(0)
  /\ out.v["m"] = Obj("Vec", NewList(<<Sc(0)>>), <<1>>)
  /\ out.t["x"] = StrTSym

\* C21: an assignment to a bare variable of a value that passes the check
\* with an NA-free type T passes, has type T and leaves the variable bound
\* to T in the type table, whatever type the variable had before.
C21_AsgnVar ==
  (/\ IsAsgnLine
   /\ arg[2].ch[1].t = "VAR"
   /\ Chk(arg[2].ch[2], FALSE, arg[1]).err = "OK"
   /\ Chk(arg[2].ch[2], FALSE, arg[1]).t.t # "NA")
  => /\ out.err = "OK"
     /\ out.t = Chk(arg[2].ch[2], FALSE, arg[1]).t
     /\ out.env[arg[2].ch[1].v] = Chk(arg[2].ch[2], FALSE, arg[1]).t

\* C21 witness: x = [0] was checked with x a string before
C21_Witness ==
  /\ IsAsgnLine
  /\ arg[2].ch[1] = Var("x")
  /\ arg[2].ch[2] = ArrLit(<<Num>>)
  /\ arg[1]["x"] = StrTSym
  /\ out.err = "OK"
  /\ out.env["x"] = ArrTSym(NumTSym, 1)

\* the child of a two-operand operator node that is checked first, and the
\* one checked after it
FirstCh(ast) == IF ast.v = "EXP" THEN ast.ch[2] ELSE ast.ch[1]
SecondCh(ast) == IF ast.v = "EXP" THEN ast.ch[1] ELSE ast.ch[2]
\* the line is an operator applied to an assignment to a bare variable, which
\* passes its check, and to an operand checked after it, which fails and
\* does not assign the variable
IsCommitLine ==
  /\ op = "chk"
  /\ arg[2].t = "OP" /\ arg[2].v \notin {"IDX", "ASGN"}
  /\ Len(arg[2].ch) = 2
  /\ FirstCh(arg[2]).t = "OP" /\ FirstCh(arg[2]).v = "ASGN"
  /\ FirstCh(arg[2]).ch[1].t = "VAR"
  /\ Chk(FirstCh(arg[2]), FALSE, arg[1]).err = "OK"
  /\ Chk(SecondCh(arg[2]), FALSE, Chk(FirstCh(arg[2]), FALSE, arg[1]).env).err # "OK"
  /\ ~Assigns(SecondCh(arg[2]), FirstCh(arg[2]).ch[1].v)

\* C22: when an assignment that is an operand passes its check and the
\* operand checked after it fails, the line fails with the error of that
\* operand and the type table holds the type the assignment bound.
C22_CommitStays ==
  IsCommitLine =>
    /\ out.err = Chk(SecondCh(arg[2]), FALSE,
                     Chk(FirstCh(arg[2]), FALSE, arg[1]).env).err
    /\ out.env[FirstCh(arg[2]).ch[1].v] = Chk(FirstCh(arg[2]), FALSE, arg[1]).t

\* C22 witness: (x = 0) + (0 = 0) was checked with x unbound
C22_Witness ==
  /\ IsCommitLine
  /\ arg[2] = Op("ADD", <<Asgn(Var("x"), Num), Asgn(Num, Num)>>)
  /\ arg[1]["x"] = NATSym
  /\ out.err = "INVALID_LVAL"
  /\ out.env["x"] = NumTSym

\* the value v promoted to the depth of the chain idx
C23_Promoted(v, idx) == Promote(v, Len(idx) - Dept(v))

\* C23: an update through a chain longer than the depth of the value first
\* promotes the value by exactly len(chain) - depth(value) leading axes of
\* size 1, as get does; for such a chain of in-bound single indices and a
\* base-type object x the update succeeds, its result has the promoted shape
\* and getting the result through the chain gives x back.
C23_UpdateLongChain ==
  (/\ op = "update"
   /\ Len(arg[2]) > Dept(arg[1])
   /\ arg[3].k = "Sc"
   /\ IsPosition(C23_Promoted(arg[1], arg[2]), arg[2]))
  => /\ ~IsErr(out.r)
     /\ out.r.dim = C23_Promoted(arg[1], arg[2]).dim
     /\ Get(out.r, arg[2]) = arg[3]

(***************************************************************************)
(* Indexing and indexed assignment as the interpreter runs them: Sp.__idx  *)
(* and the branch of Interp.__interp_asgn for a target with indices, on    *)
(* the value of the variable, the address and the value to assign.         *)
(***************************************************************************)
\* the type the checker gives to an index: a Void token for [], a number, a
\* list of numbers
SelT(sel) ==
  IF sel.s = "All" THEN VoidTSym
  ELSE IF sel.s = "Sngl" THEN NumTSym
  ELSE ArrTSym(NumTSym, 1)
\* the type of a value of numbers
TOf(v) == IF IsArr(v) THEN ArrTSym(NumTSym, Dept(v)) ELSE NumTSym
\* the type Sp.t_chk gives to the node x[idx] for x of type t
IdxT(t, idx) == TChkHlprIdx(t, [i \in 1..Len(idx) |-> SelT(idx[i])])

\* Vec([src]) of Sp.__idx and Interp.__interp_asgn
VecOf(src) == Obj("Vec", NewList(<<src>>), <<1>>)

\* Sp.__idx without Vec([src]): a base-type value is returned as it is
SpIdxBase(src, idx) == IF IsArr(src) THEN Get(src, idx) ELSE src

\* Sp.__idx
SpIdx(src, idx) == IF IsArr(src) THEN Get(src, idx) ELSE Get(VecOf(src), idx)

\* Sp.__addr: the address (id, idx1 + idx2) of (id, idx1)[idx2]
SpAddr(addr, idx) == addr \o idx

\* the outcome of an indexed assignment: the errno raised ("PY" for an
\* exception of the host that is no InterpErr) and the value written to the
\* value table
Stored(v) == [err |-> "OK", v |-> v]
NotStored(errno) == [err |-> errno, v |-> NoneV]

\* the try block of Interp.__interp_asgn (128-142) for an array target whose
\* update gave new
StoreArr(tar, new) ==
  IF IsErr(new) THEN NotStored(new.errno)
  ELSE Stored(Degrade(new, Dept(new) - Dept(tar)))

\* the same for a base-type target: n = tar.dept reads an attribute a number
\* does not have
StoreBase(tar, new) ==
  IF IsErr(new) THEN NotStored(new.errno) ELSE NotStored("PY")

\* val.promote(ast.ch[0].t.dept - val.dept) of line 125-126
AsgnVal(t, val) ==
  IF t.t = "ARR" /\ IsArr(val) THEN Promote(val, t.dept - Dept(val)) ELSE val

\* Interp.__interp_asgn, assignment with indexing (121-144), for the value
\* tar of the variable, the address idx and the value val
InterpAsgnIdx(tar, idx, val) ==
  IF IsArr(tar)
  THEN StoreArr(tar, Update(tar, idx, AsgnVal(IdxT(TOf(tar), idx), val)).r)
  ELSE StoreBase(tar, Update(VecOf(tar), idx,
                             AsgnVal(IdxT(TOf(tar), idx), val)).r)

\* the values of the variables indexed: the arrays and a number
Tars2 == Arrays \cup {Sc(0)}

CallSpIdx ==
  /\ op = "init"
  /\ \E v \in Tars2, idx \in Chains :
       /\ op' = "idx"
       /\ arg' = <<v, idx>>
       /\ out' = SpIdx(v, idx)

CallAsgnIdx ==
  /\ op = "init"
  /\ \E v \in Tars2, idx \in Chains, val \in Vals :
       /\ op' = "asgn_idx"
       /\ arg' = <<v, idx, val>>
       /\ out' = InterpAsgnIdx(v, idx, val)

INext == CallSpIdx \/ CallAsgnIdx

ISpec == Init /\ [][INext]_vars

\* C24: interpreting an indexed assignment of a number to a variable either
\* raises an array error or writes to the value table a value of the depth
\* the variable held before (a number for a number).
C24_StoredDepth ==
  (op = "asgn_idx" /\ arg[3].k = "Sc")
  => /\ out.err \in {"OK", "EMPTY_IDX", "IDX_BOUND"}
     /\ out.err = "OK"
        => IF IsArr(arg[1]) THEN IsArr(out.v) /\ Dept(out.v) = Dept(arg[1])
           ELSE ~IsArr(out.v)

\* the errors an interpretation may end with: the array errors and
\* KERNEL_ERR, all of them InterpErr
InterpErrnos ==
  {"EMPTY_IDX", "IDX_BOUND", "ASGN_N_MISS", "DIM_MISMATCH", "KERNEL_ERR"}

\* C25: the interpretation of an indexed assignment that fails raises a
\* tagged interpreter error: an array error with its own kind, or
\* KERNEL_ERR for any other exception of the host; no other exception
\* escapes.
C25_TaggedErr == op = "asgn_idx" => out.err \in {"OK"} \cup InterpErrnos

\* C26: a line that raises an error never ends the session: once the error
\* is raised the loop is back at reading the next line.
C26_ErrGoesOn == out.err # "OK" => op = "read"

(***************************************************************************)
(* Elementwise binary operators on arrays: Arr.__apply, Mat.__apply and    *)
(* Vec.__apply under Python's dispatch of x + y and x - y.                  *)
(***************************************************************************)
RECURSIVE BinOp(_, _, _)
RECURSIVE Apply(_, _, _, _)

\* the value NotImplemented
NotImpl == [k |-> "NotImpl"]
\* the operators applied: add and sub
ApplyOps == {"add", "sub"}
\* operator.add and operator.sub on two numbers
NumOp(o, x, y) == Sc(IF o = "add" THEN x.v + y.v ELSE x.v - y.v)
\* type(y) is a proper subclass of type(x): Vec < Mat < Arr
SubclsOf(y, x) ==
  \/ x.k = "Arr" /\ y.k \in {"Mat", "Vec"}
  \/ x.k = "Mat" /\ y.k = "Vec"
\* __radd__ calls __add__ with add; __rsub__ applies lambda x, y: y - x
Rev(o) == o # "add"

\* the callable op of __apply on a and b: a op b, or b op a when reversed
Op2(o, rev, a, b) == IF rev THEN BinOp(o, b, a) ELSE BinOp(o, a, b)

\* the object cls(res, dim) of the results res, or the first exception
ApplyRes(cls, res, dim) ==
  IF ErrsOf(res) # {} THEN FirstErr(res) ELSE Obj(cls, NewList(res), dim)

\* [BinOpComp] without the test of the number of items
ApplyCompNoChk(cls, self, other, o, rev) ==
  ApplyRes(cls, [i \in 1..(IF self.dim[1] <= other.dim[1] THEN self.dim[1]
                          ELSE other.dim[1]) |->
                  Op2(o, rev, self.elem[i], other.elem[i])], self.dim)

\* [BinOpComp] of the class cls: the items of self and other pairwise
ApplyComp(cls, self, other, o, rev) ==
  IF self.dim[1] # other.dim[1] THEN Err("DIM_MISMATCH")
  ELSE ApplyRes(cls, [i \in 1..self.dim[1] |->
                        Op2(o, rev, self.elem[i], other.elem[i])], self.dim)

\* [BinOpDist] of the class cls: every item of self with other
ApplyDist(cls, self, other, o, rev) ==
  ApplyRes(cls, [i \in 1..Len(self.elem) |-> Op2(o, rev, self.elem[i], other)],
           self.dim)

\* Arr.__apply
ArrApply(self, other, o, rev) ==
  IF IsArr(other)
  THEN IF Dept(self) > Dept(other)
       THEN Op2(o, rev, self, Promote(other, Dept(self) - Dept(other)))
       ELSE IF Dept(self) < Dept(other)
       THEN Op2(o, rev, Promote(self, Dept(other) - Dept(self)), other)
       ELSE ApplyComp("Arr", self, other, o, rev)
  ELSE ApplyDist("Arr", self, other, o, rev)

\* Mat.__apply
MatApply(self, other, o, rev) ==
  IF other.k = "Arr" THEN NotImpl
  ELSE IF other.k = "Vec" THEN Op2(o, rev, self, Promote(other, 1))
  ELSE IF other.k = "Mat" THEN ApplyComp("Mat", self, other, o, rev)
  ELSE ApplyDist("Mat", self, other, o, rev)

\* Vec.__apply
VecApply(self, other, o, rev) ==
  IF other.k \in {"Mat", "Arr"} THEN NotImpl
  ELSE IF other.k = "Vec"
  THEN IF self.dim[1] # other.dim[1] THEN Err("DIM_MISMATCH")
       ELSE ApplyRes("Vec", [i \in 1..Len(self.elem) |->
                               Op2(o, rev, self.elem[i], other.elem[i])],
                     <<Len(self.elem)>>)
  ELSE ApplyRes("Vec", [i \in 1..Len(self.elem) |->
                          Op2(o, rev, self.elem[i], other)],
                <<Len(self.elem)>>)

\* self.__apply(other, op): the method of the class of self
Apply(self, other, o, rev) ==
  IF self.k = "Arr" THEN ArrApply(self, other, o, rev)
  ELSE IF self.k = "Mat" THEN MatApply(self, other, o, rev)
  ELSE VecApply(self, other, o, rev)

\* a result of NotImplemented with no method left is a TypeError
OrTypeError(r) == IF r = NotImpl THEN Err("PY") ELSE r
\* the second method Python tries when the first returned r
OrElse(r, self, other, o, rev) ==
  IF r = NotImpl THEN OrTypeError(Apply(self, other, o, rev)) ELSE r

\* x + y and x - y: the reflected method of y comes first when the class of
\* y is a proper subclass of the class of x, otherwise x.__op__(y) and, for
\* operands of different classes, y.__rop__(x)
BinOp(o, x, y) ==
  IF ~IsArr(x) /\ ~IsArr(y) THEN NumOp(o, x, y)
  ELSE IF ~IsArr(x) THEN Apply(y, x, o, Rev(o))
  ELSE IF IsArr(y) /\ SubclsOf(y, x)
  THEN OrElse(Apply(y, x, o, Rev(o)), x, y, o, FALSE)
  ELSE IF IsArr(y) /\ y.k # x.k
  THEN OrElse(Apply(x, y, o, FALSE), y, x, o, Rev(o))
  ELSE OrTypeError(Apply(x, y, o, FALSE))

\* the operands: the arrays, arrays of other items, and a number
Opnds2 == {MkArr(dim, 100, 2) : dim \in Dims} \cup {Sc(99)}

CallApply ==
  /\ op = "init"
  /\ \E o \in ApplyOps, x \in Arrays \cup {Sc(7)}, y \in Opnds2 :
       /\ op' = "apply"
       /\ arg' = <<o, x, y>>
       /\ out' = BinOp(o, x, y)

BSpec == Init /\ [][CallApply]_vars

\* the dim of x brought to depth d by leading axes of size 1
C27_Dim(x, d) == [i \in 1..(d - Dept(x)) |-> 1] \o x.dim
\* the item of x at the position p of the common shape (x itself for a number)
C27_At(x, p) == IF IsArr(x) THEN Get(x, SnglChain(p)) ELSE x
\* out has the shape dim and holds at every position the result of o on the
\* items of x and y there
C27_Elementwise(o, x, y, dim) ==
  /\ IsArr(out)
  /\ out.dim = dim
  /\ \A p \in Positions(dim) :
       C27_At(out, p) = NumOp(o, C27_At(x, p), C27_At(y, p))

\* C27: an elementwise binary operator on two arrays succeeds exactly when
\* their dims are equal once the operand of lower depth is promoted to the
\* depth of the other; the result then has that dim and otherwise the
\* operator fails with DIM_MISMATCH.  With an array and a number it always
\* succeeds and the result has the dim of the array.
C27_Apply ==
  op = "apply"
  => LET o == arg[1]
         x == arg[2]
         y == arg[3]
         d == Max(Dept(x), Dept(y))
     IN IF IsArr(x) /\ IsArr(y)
        THEN IF C27_Dim(x, d) = C27_Dim(y, d)
             THEN C27_Elementwise(o, x, y, C27_Dim(x, d))
             ELSE out = Err("DIM_MISMATCH")
        ELSE IF IsArr(x) THEN C27_Elementwise(o, x, y, x.dim)
        ELSE IsArr(y) => C27_Elementwise(o, x, y, y.dim)

\* C27 witness: a vector minus an array of depth 3 with one row of the same
\* length
C27_Witness ==
  /\ op = "apply"
  /\ arg[1] = "sub"
  /\ IsArr(arg[2]) /\ arg[2].dim = <<2>>
  /\ IsArr(arg[3]) /\ arg[3].dim = <<1, 1, 2>>
  /\ out.k = "Arr"
  /\ out.dim = <<1, 1, 2>>
  /\ Get(out, SnglChain(<<0, 0, 1>>)) = Sc(2 - 102)

\* the depth of a value and the depth a type states: 0 for a base type
C28_Depth(x) == IF IsArr(x) THEN Dept(x) ELSE 0
C28_TDepth(t) == IF t.t = "ARR" THEN t.dept ELSE 0
\* the shape the chain idx indexes: the dim of v (of Vec([v]) for a number)
\* with leading axes of size 1 up to the length of the chain
C28_Shape(v, idx) ==
  LET dim == IF IsArr(v) THEN v.dim ELSE <<1>>
  IN [i \in 1..Max(Len(idx) - Len(dim), 0) |-> 1] \o dim
\* i rounds to an index of an axis of size n
C28_In(i, n) == Round(i) >= 0 /\ Round(i) < n
\* every single index and every listed index of the chain is in bound and
\* no list is empty
C28_InBounds(v, idx) ==
  \A i \in 1..Len(idx) :
    /\ idx[i].s = "Sngl" => C28_In(idx[i].v, C28_Shape(v, idx)[i])
    /\ idx[i].s = "List"
       => /\ Len(idx[i].v) > 0
          /\ \A n \in 1..Len(idx[i].v) :
               C28_In(idx[i].v[n], C28_Shape(v, idx)[i])

\* C28: indexing a well-formed array of depth d (a number as depth 0)
\* through an in-bound chain without empty lists returns a value whose
\* depth is the depth of the type the index rule gives from Array(elem, d)
\* (or the base type) and the kinds of the indices, depth 0 being a number.
C28_IdxDepth ==
  (op = "idx" /\ C28_InBounds(arg[1], arg[2]))
  => /\ ~IsErr(out)
     /\ C28_Depth(out) = C28_TDepth(IdxT(TOf(arg[1]), arg[2]))

\* C28 witness: a matrix read through [list][single][all] gives a matrix, as
\* typed, and a number read through [all][list] gives a vector
C28_Witness ==
  /\ op = "idx"
  /\ \/ /\ arg[1].k = "Mat"
        /\ arg[2] = <<List(<<0, 0>>), Sngl(0), All>>
        /\ out.k = "Mat"
        /\ IdxT(TOf(arg[1]), arg[2]) = ArrTSym(NumTSym, 2)
     \/ /\ arg[1].k = "Sc"
        /\ arg[2] = <<All, List(<<0, 0>>)>>
        /\ out.k = "Vec"
        /\ IdxT(TOf(arg[1]), arg[2]) = ArrTSym(NumTSym, 1)

\* a value has the kind and the depth the type states
C29_HasType(v, t) ==
  IF t.t = "NUM" THEN v.k = "Sc"
  ELSE IF t.t = "STR" THEN v.k = "Str"
  ELSE IF t.t = "ARR" THEN IsArr(v) /\ Dept(v) = t.dept
  ELSE FALSE
\* the two tables bind the same variables and every value has its type
C29_Agree(tt, vt) ==
  \A id \in VarIds :
    IF tt[id] = NATSym THEN vt[id] = NoneV
    ELSE vt[id] # NoneV /\ C29_HasType(vt[id], tt[id])

RECURSIVE C30_Items(_)
\* the numbers held by a value
C30_Items(x) ==
  IF IsArr(x) THEN UNION {C30_Items(x.elem[i]) : i \in 1..Len(x.elem)}
  ELSE {x.v}
\* the items of v, all distinct, at the positions where new holds x
C30_Written(v, new, x) ==
  {Get(v, SnglChain(p)).v :
     p \in {q \in Positions(v.dim) : Get(new, SnglChain(q)) = x}}
\* the items of v read by v[c1][c2], c1 being the first k indices of idx
C30_Read(v, idx, k) ==
  SpIdx(SpIdx(v, SubSeq(idx, 1, k)), SubSeq(idx, k + 1, Len(idx)))

\* C30: for a nested target x[c1][c2] the address (x, c1 ++ c2) selects in
\* update exactly the positions of x that reading x[c1][c2] returns: when
\* the number 99 is assigned through the address and the read succeeds, the
\* items replaced are the items read.
C30_AddrSelects ==
  (/\ op = "asgn_idx"
   /\ arg[3] = Sc(99)
   /\ IsArr(arg[1])
   /\ Len(arg[2]) <= Dept(arg[1])
   /\ out.err = "OK")
  => \A k \in 1..(Len(arg[2]) - 1) :
       ~IsErr(C30_Read(arg[1], arg[2], k))
       => C30_Items(C30_Read(arg[1], arg[2], k))
            = C30_Written(arg[1], out.v, arg[3])

====
